---- MODULE Spec2Model ----
(***************************************************************************)
(* State-machine model of the device liveness tracker                      *)
(* (app/services/maquina_service.py) and of the license state machine      *)
(* (app/services/licenca_service.py).                                      *)
(*                                                                         *)
(* Time is the value of datetime.utcnow(), counted in minutes from the     *)
(* start of the run.  Every service method runs to completion on the       *)
(* event loop (the handlers contain no await before their commit), so      *)
(* each method is one action.  lastOp records, for the call that was just  *)
(* made, its name, its target, its argument, its return value and the     *)
(* alerts it requested (the calls of the enviar_alerta_* functions, in     *)
(* order).                                                                 *)
(***************************************************************************)
EXTENDS Integers, Sequences, FiniteSets, TLC

VARIABLES now, smtp_ok, maquinas, metricas, varredura, sessoes, licencas,
          bloqueios,
          assinaturas, clientes,
          active_connections, maquina_subscriptions, sockets, transmissao,
          handlers,
          monitor, execucoes,
          lastOp

vars == <<now, smtp_ok, maquinas, metricas, varredura, sessoes, licencas,
          bloqueios,
          assinaturas, clientes,
          active_connections, maquina_subscriptions, sockets, transmissao,
          handlers,
          monitor, execucoes,
          lastOp>>
maquinaVars == <<maquinas, metricas>>
\* What the database sessions other than the one of the call hold: the
\* rows they have read and have not yet committed
varreduraVars == <<varredura, sessoes>>
licencaVars == <<licencas, bloqueios>>
assinaturaVars == <<assinaturas, clientes>>
registroVars == <<active_connections, maquina_subscriptions, sockets,
                  transmissao, handlers>>
agendaVars == <<monitor, execucoes>>
\* What the device operations and the license operations leave alone
foraMaquina == <<licencaVars, assinaturaVars, registroVars, agendaVars>>
foraLicenca == <<maquinaVars, varreduraVars, assinaturaVars, registroVars,
                 agendaVars>>
foraAssinatura == <<now, smtp_ok, maquinaVars, varreduraVars, licencaVars,
                    registroVars, agendaVars>>
foraRegistro == <<now, smtp_ok, maquinaVars, varreduraVars, licencaVars,
                  assinaturaVars, agendaVars>>

----------------------------------------------------------------------------
(* Bounds of the model *)

MaxMaquinas == 2
MaxPassosMinutos == 2
MaxPassosDias == 4
MaxCreditos == 1
MaxMetricas == 1
MaxUsos == 2
MaxLimiteUsos == 1
MaxMeses == 2
MaxBloqueios == 1
MaxConexoes == 2
MaxPassosAntecedencia == 10
MaxRenovacoes == 2
MaxRondas == 2

(* Program constants *)

NULL == -1
MINUTOS_POR_DIA == 1440
MINUTOS_OFFLINE == 5
CREDITO_ATIVIDADE == 300
LIMITE_METRICA == 90
DIAS_DEMONSTRACAO == 15
DIAS_TEMPORARIA == 30
DIAS_POR_MES == 30
LIMITE_MAQUINAS == 1
DIAS_MENSAL == 30
DIAS_TRIMESTRAL == 90
DIAS_SEMESTRAL == 180
DIAS_ANUAL == 365
DIAS_BIANUAL == 730
DIAS_ANTECEDENCIA == 3
DIAS_EXPIRANDO == 7
DIAS_ALERTA_EXPIRACAO == 3

(* Granularity of the clock in each specification *)
PassoMinutos == MINUTOS_OFFLINE
PassoDias == DIAS_DEMONSTRACAO * MINUTOS_POR_DIA

MaquinaIds == 1..MaxMaquinas
\* Every license operation reads and writes the one row it looks up by key
\* or id; the model follows one license, and the other rows of the table
\* enter only as the count criar_licenca reads (OutrasAtivas).
LicencaIds == {1}
OutrasAtivas == {0, 1}
ClienteIds == {1}

StatusMaquina == {"online", "offline", "manutencao", "bloqueada"}
StatusLicenca == {"ativa", "expirada", "suspensa", "cancelada", "pendente"}
TipoLicenca == {"demonstracao", "temporaria", "perpetua", "assinatura"}

Alerta(tipo, alvo) == [tipo |-> tipo, alvo |-> alvo]
SemAnterior == [repetida |-> FALSE, ret |-> NULL]
\* The record of a call: erro says that the call ended with an exception
\* raised to its caller.
Op(nome, alvo, args, ret, alertas) ==
    [op |-> nome, alvo |-> alvo, args |-> args, ret |-> ret, alertas |-> alertas,
     erro |-> FALSE, anterior |-> SemAnterior]
OpErro(nome, alvo, args, ret, alertas) ==
    [Op(nome, alvo, args, ret, alertas) EXCEPT !.erro = TRUE]
\* The record of a run of a periodic sweep: anterior is what the run just
\* before it returned, when that was a run of the same sweep and no other
\* call came in between.
OpVarredura(nome, alvo, args, ret, alertas) ==
    [Op(nome, alvo, args, ret, alertas) EXCEPT
        !.anterior = IF lastOp.op = nome /\ ~lastOp.erro
                     THEN [repetida |-> TRUE, ret |-> lastOp.ret]
                     ELSE SemAnterior]

----------------------------------------------------------------------------
(* Alert dispatch: AlertaService.enviar_email *)

\* Mutant: a failure of the SMTP transport is raised to the caller
EnvioLevantaSeFalha(envio_ok) == ~envio_ok

\* alertas.py:18-47 -- enviar_email returns False when SMTP is not configured
\* and catches every exception of the transport; criar_alerta_sistema only
\* logs.  No enviar_alerta_* function raises because the dispatch failed.
EnvioLevanta(envio_ok) == FALSE

\* The SMTP transport (settings.SMTP_*, the server) starts or stops working
smtp_muda ==
    /\ smtp_ok' = ~smtp_ok
    /\ lastOp' = Op("smtp_muda", NULL, NULL, NULL, <<>>)
    /\ UNCHANGED <<now, maquinaVars, varreduraVars, foraMaquina>>

----------------------------------------------------------------------------
(* The database session of a monitor job *)

\* database/session.py:24-31 and monitoramento.py:20, :40, :67, :93 --
\* get_db is wrapped by contextlib.contextmanager, so get_db() is a context
\* manager and no iterator: next(get_db()), the first statement inside the
\* try of every job, raises TypeError and the job has no session
next_get_db_levanta == TRUE

----------------------------------------------------------------------------
(* The clock *)

TickMinutos ==
    /\ now + PassoMinutos <= MaxPassosMinutos * PassoMinutos
    /\ now' = now + PassoMinutos
    /\ lastOp' = Op("tick", NULL, NULL, NULL, <<>>)
    /\ UNCHANGED <<smtp_ok, maquinaVars, varreduraVars, foraMaquina>>

TickDias ==
    /\ now + PassoDias <= MaxPassosDias * PassoDias
    /\ now' = now + PassoDias
    /\ lastOp' = Op("tick", NULL, NULL, NULL, <<>>)
    /\ UNCHANGED <<smtp_ok, maquinaVars, varreduraVars, foraMaquina>>

----------------------------------------------------------------------------
(* Devices: MaquinaService *)

NovaMaquina(c, t) ==
    [cliente_id |-> c, status |-> "offline", ultima_conexao |-> t,
     tempo_atividade |-> 0, versao_app |-> NULL]

registrar_maquina(d, c) ==
    /\ d \notin DOMAIN maquinas
    /\ maquinas' = [x \in DOMAIN maquinas \cup {d} |->
                      IF x = d THEN NovaMaquina(c, now) ELSE maquinas[x]]
    /\ lastOp' = Op("registrar_maquina", d, c, d, <<>>)
    /\ UNCHANGED <<now, smtp_ok, metricas, varreduraVars, foraMaquina>>

Heartbeat(s, m, v) == [status |-> s, metricas |-> m, versao_app |-> v]
Metrica(cpu, mem) == [cpu_uso |-> cpu, memoria_uso |-> mem]
SemMetricas == [cpu_uso |-> NULL, memoria_uso |-> NULL, ausente |-> TRUE]

\* maquina_service.py:65 -- the reported status is stored as it is
StatusAposHeartbeat(anterior, reportado) == reportado

\* Mutant: every heartbeat that reports Online earns the credit
VoltouOnlineDeQualquer(anterior, reportado) == reportado = "online"

\* maquina_service.py:72
VoltouOnline(anterior, reportado) ==
    anterior = "offline" /\ reportado = "online"

MaquinaAposHeartbeat(m, hb, t) ==
    [m EXCEPT !.status = StatusAposHeartbeat(m.status, hb.status),
              !.ultima_conexao = t,
              !.versao_app = IF hb.versao_app # NULL THEN hb.versao_app ELSE @,
              !.tempo_atividade = IF VoltouOnline(m.status, hb.status)
                                  THEN @ + CREDITO_ATIVIDADE ELSE @]

\* Mutant: a reading at the limit is suspect too
MetricaSuspeitaInclusive(x) == x # NULL /\ x # 0 /\ x >= LIMITE_METRICA

\* maquina_service.py:91 and :93 -- `x and x > 90`: None and 0 are falsy
MetricaSuspeita(x) == x # NULL /\ x # 0 /\ x > LIMITE_METRICA

AlertasHeartbeat(d, hb) ==
    IF hb.metricas = SemMetricas THEN <<>>
    ELSE (IF MetricaSuspeita(hb.metricas.cpu_uso)
          THEN <<Alerta("atividade_suspeita", d)>> ELSE <<>>)
         \o (IF MetricaSuspeita(hb.metricas.memoria_uso)
             THEN <<Alerta("atividade_suspeita", d)>> ELSE <<>>)

\* envio_ok: whether the SMTP transport works during the call
processar_heartbeat_envio(d, hb, envio_ok) ==
    IF d \notin DOMAIN maquinas
    THEN /\ lastOp' = Op("processar_heartbeat", d, hb, NULL, <<>>)
         /\ UNCHANGED <<now, smtp_ok, maquinaVars, varreduraVars, foraMaquina>>
    ELSE IF AlertasHeartbeat(d, hb) # <<>> /\ EnvioLevanta(envio_ok)
    THEN \* the alert is requested before db.commit() (lines 91-96)
         /\ lastOp' = OpErro("processar_heartbeat", d, hb, NULL,
                             <<AlertasHeartbeat(d, hb)[1]>>)
         /\ UNCHANGED <<now, smtp_ok, maquinaVars, varreduraVars, foraMaquina>>
    ELSE /\ VoltouOnline(maquinas[d].status, hb.status)
              => maquinas[d].tempo_atividade + CREDITO_ATIVIDADE
                    <= MaxCreditos * CREDITO_ATIVIDADE
         /\ hb.metricas # SemMetricas => Len(metricas) < MaxMetricas
         /\ maquinas' = [maquinas EXCEPT ![d] = MaquinaAposHeartbeat(@, hb, now)]
         /\ metricas' = IF hb.metricas = SemMetricas THEN metricas
                        ELSE Append(metricas, [maquina_id |-> d,
                                               cpu_uso |-> hb.metricas.cpu_uso,
                                               memoria_uso |-> hb.metricas.memoria_uso])
         /\ lastOp' = Op("processar_heartbeat", d, hb, d, AlertasHeartbeat(d, hb))
         /\ UNCHANGED <<now, smtp_ok, varreduraVars, foraMaquina>>

processar_heartbeat(d, hb) == processar_heartbeat_envio(d, hb, smtp_ok)

\* maquina_service.py:108
LimiteOffline(t, minutos) == t - minutos

\* Mutant: the sweep selects by last_seen alone
SelecionadaSemStatus(m, limite) == m.ultima_conexao < limite

\* maquina_service.py:110-115
SelecionadaOffline(m, limite) ==
    m.status # "offline" /\ m.ultima_conexao < limite

MaquinasSelecionadas(ms, t, minutos) ==
    {d \in DOMAIN ms : SelecionadaOffline(ms[d], LimiteOffline(t, minutos))}

SetToSeq(S) ==
    LET RECURSIVE F(_)
        F(T) == IF T = {} THEN <<>>
                ELSE LET x == CHOOSE y \in T : \A z \in T : y <= z
                     IN <<x>> \o F(T \ {x})
    IN F(S)

\* Mutant: the sweep requests no alert
AlertasOfflineNenhum(sel) == <<>>

\* maquina_service.py:118-121 -- one alert for each selected device
AlertasOffline(sel) ==
    [i \in 1..Cardinality(sel) |-> Alerta("maquina_offline", SetToSeq(sel)[i])]

\* maquina_service.py:118-119
MaquinasAposVarredura(ms, sel) ==
    [d \in DOMAIN ms |->
        IF d \in sel THEN [ms[d] EXCEPT !.status = "offline"] ELSE ms[d]]

verificar_maquinas_offline_envio(minutos, envio_ok) ==
    LET sel == MaquinasSelecionadas(maquinas, now, minutos) IN
    /\ IF sel # {} /\ EnvioLevanta(envio_ok)
       THEN \* the alerts are requested before db.commit() (lines 118-123)
            /\ lastOp' = OpErro("verificar_maquinas_offline", NULL, minutos, {},
                                <<AlertasOffline(sel)[1]>>)
            /\ UNCHANGED maquinas
       ELSE /\ maquinas' = MaquinasAposVarredura(maquinas, sel)
            /\ lastOp' = OpVarredura("verificar_maquinas_offline", NULL, minutos,
                                     sel, AlertasOffline(sel))
    /\ UNCHANGED <<now, smtp_ok, metricas, varreduraVars, foraMaquina>>

verificar_maquinas_offline(minutos) ==
    verificar_maquinas_offline_envio(minutos, smtp_ok)

\* The same method, run in the database session of the monitor
\* (monitoramento.py:20) while the sessions of the API workers commit
\* heartbeats: the rows are read by the query of lines 110-115 and written
\* by the commit of line 123, and no lock, version column or condition in
\* the UPDATE ties the two together.
SemVarredura == [ativa |-> FALSE]

varredura_selecionar(minutos) ==
    /\ ~varredura.ativa
    /\ varredura' = [ativa |-> TRUE, minutos |-> minutos,
                     limite |-> LimiteOffline(now, minutos),
                     sel |-> MaquinasSelecionadas(maquinas, now, minutos)]
    /\ lastOp' = Op("varredura_selecionar", NULL, minutos, NULL, <<>>)
    /\ UNCHANGED <<now, smtp_ok, maquinaVars, sessoes, foraMaquina>>

varredura_gravar ==
    /\ varredura.ativa
    /\ maquinas' = MaquinasAposVarredura(maquinas, varredura.sel)
    /\ varredura' = SemVarredura
    /\ lastOp' = Op("varredura_gravar", NULL, varredura.minutos, varredura.sel,
                    AlertasOffline(varredura.sel))
    /\ UNCHANGED <<now, smtp_ok, metricas, sessoes, foraMaquina>>

bloquear_maquina(d) ==
    IF d \notin DOMAIN maquinas
    THEN /\ lastOp' = Op("bloquear_maquina", d, NULL, FALSE, <<>>)
         /\ UNCHANGED <<now, smtp_ok, maquinaVars, varreduraVars, foraMaquina>>
    ELSE /\ maquinas' = [maquinas EXCEPT ![d].status = "bloqueada"]
         /\ lastOp' = Op("bloquear_maquina", d, NULL, TRUE, <<>>)
         /\ UNCHANGED <<now, smtp_ok, metricas, varreduraVars, foraMaquina>>

desbloquear_maquina(d) ==
    IF d \notin DOMAIN maquinas
    THEN /\ lastOp' = Op("desbloquear_maquina", d, NULL, FALSE, <<>>)
         /\ UNCHANGED <<now, smtp_ok, maquinaVars, varreduraVars, foraMaquina>>
    ELSE /\ maquinas' = [maquinas EXCEPT ![d].status = "online"]
         /\ lastOp' = Op("desbloquear_maquina", d, NULL, TRUE, <<>>)
         /\ UNCHANGED <<now, smtp_ok, metricas, varreduraVars, foraMaquina>>

HeartbeatsMaquina ==
    {Heartbeat(s, SemMetricas, NULL) : s \in StatusMaquina}

\* The database sessions of two requests that are served at the same time
Sessoes == {1, 2}

\* Heartbeats that carry metrics, at the limit and just above it
Cargas == {LIMITE_METRICA, LIMITE_METRICA + 1}
HeartbeatsComMetricas ==
    {Heartbeat("online", Metrica(cpu, mem), NULL) : cpu \in Cargas, mem \in Cargas}

----------------------------------------------------------------------------
(* The connection registry: MaquinaConnectionManager                       *)
(*                                                                         *)
(* connect, disconnect and subscribe change the registry in one piece (the *)
(* only await of connect comes before its writes, the only await of        *)
(* subscribe after them).  A broadcast suspends at every send_json, so it  *)
(* is one step for each send: the calls of other handlers come in between. *)
(* sockets[ws] says whether the transport of ws still works: a send on a   *)
(* socket whose transport has gone raises.  handlers[ws] is the position   *)
(* of the websocket handler of ws (maquina_api.py:197-214): not begun, in  *)
(* its receive loop, or ended; each method takes the handlers to leave     *)
(* behind, and a direct call of the method leaves them as they are.        *)

SocketIds == {1, 2}
Tenants == {1, 2}
MaquinasAssinadas == {1, 2}
TiposEvento == {"heartbeat", "bloqueio", "desbloqueio"}

Range(f) == {f[x] : x \in DOMAIN f}
ListaDe(c) == IF c \in DOMAIN active_connections
              THEN active_connections[c] ELSE <<>>
TotalConexoes ==
    LET RECURSIVE Soma(_)
        Soma(S) == IF S = {} THEN 0
                   ELSE LET c == CHOOSE x \in S : TRUE
                        IN Len(active_connections[c]) + Soma(S \ {c})
    IN Soma(DOMAIN active_connections)

\* list.remove(x): the first occurrence only
RemoveFirst(seq, x) ==
    LET i == CHOOSE k \in 1..Len(seq) :
                 seq[k] = x /\ \A j \in 1..(k - 1) : seq[j] # x
    IN [k \in 1..(Len(seq) - 1) |-> IF k < i THEN seq[k] ELSE seq[k + 1]]

SemTransmissao == [ativa |-> FALSE]

connect_em(ws, c, hs) ==
    /\ TotalConexoes < MaxConexoes
    /\ handlers' = hs
    /\ active_connections' =
          [x \in DOMAIN active_connections \cup {c} |->
              IF x = c THEN Append(ListaDe(c), ws) ELSE active_connections[x]]
    /\ lastOp' = Op("connect", ws, c, TRUE, <<>>)
    /\ UNCHANGED <<maquina_subscriptions, sockets, transmissao, foraRegistro>>

connect(ws, c) == connect_em(ws, c, handlers)

\* maquina_events.py:32-35
SubscriptionsSem(ws) ==
    [m \in {x \in DOMAIN maquina_subscriptions :
                maquina_subscriptions[x] \ {ws} # {}} |->
        maquina_subscriptions[m] \ {ws}]

disconnect_em(ws, c, hs) ==
    IF c \in DOMAIN active_connections /\ ws \notin Range(active_connections[c])
    THEN \* list.remove raises ValueError before anything is written
         /\ lastOp' = OpErro("disconnect", ws, c, FALSE, <<>>)
         /\ handlers' = hs
         /\ UNCHANGED <<active_connections, maquina_subscriptions, sockets,
                        transmissao, foraRegistro>>
    ELSE /\ active_connections' =
               IF c \notin DOMAIN active_connections THEN active_connections
               ELSE [x \in {y \in DOMAIN active_connections :
                               y # c \/ Len(active_connections[c]) > 1} |->
                        IF x = c THEN RemoveFirst(active_connections[c], ws)
                        ELSE active_connections[x]]
         /\ maquina_subscriptions' = SubscriptionsSem(ws)
         /\ transmissao' =
               IF transmissao.ativa
                  /\ transmissao.maquina_id \notin DOMAIN SubscriptionsSem(ws)
               THEN [transmissao EXCEPT !.orfao = TRUE]
               ELSE transmissao
         /\ lastOp' = Op("disconnect", ws, c, TRUE, <<>>)
         /\ handlers' = hs
         /\ UNCHANGED <<sockets, foraRegistro>>

disconnect(ws, c) == disconnect_em(ws, c, handlers)

subscribe_em(ws, m, hs) ==
    /\ handlers' = hs
    /\ maquina_subscriptions' =
          [x \in DOMAIN maquina_subscriptions \cup {m} |->
              IF x = m
              THEN (IF m \in DOMAIN maquina_subscriptions
                    THEN maquina_subscriptions[m] ELSE {}) \cup {ws}
              ELSE maquina_subscriptions[x]]
    /\ lastOp' = IF sockets[ws] THEN Op("subscribe", ws, m, TRUE, <<>>)
                 ELSE OpErro("subscribe", ws, m, FALSE, <<>>)
    /\ UNCHANGED <<active_connections, sockets, transmissao, foraRegistro>>

subscribe(ws, m) == subscribe_em(ws, m, handlers)

\* The transport of a socket goes away
queda(ws) ==
    /\ sockets[ws]
    /\ sockets' = [sockets EXCEPT ![ws] = FALSE]
    /\ lastOp' = Op("queda", ws, NULL, TRUE, <<>>)
    /\ UNCHANGED <<active_connections, maquina_subscriptions, transmissao,
                   handlers, foraRegistro>>

Resultado(entregues, falhas) == [entregues |-> entregues, falhas |-> falhas]

\* maquina_events.py:61-64 -- the loop has begun and awaits its first send
TransmissaoInicial(m, ws) ==
    [ativa |-> TRUE, maquina_id |-> m,
     inicial |-> maquina_subscriptions[m],
     tamanho |-> Cardinality(maquina_subscriptions[m]),
     visitados |-> {ws}, enviando |-> ws,
     disconnected |-> {}, entregues |-> {}, orfao |-> FALSE]

\* maquina_events.py:51-64 -- up to the first send_json
broadcast_inicio(m, tipo) ==
    /\ ~transmissao.ativa
    /\ IF m \notin DOMAIN maquina_subscriptions
       THEN /\ lastOp' = Op("broadcast", m, tipo, Resultado({}, {}), <<>>)
            /\ UNCHANGED transmissao
       ELSE IF maquina_subscriptions[m] = {}
       THEN /\ lastOp' = Op("broadcast", m, tipo, Resultado({}, {}), <<>>)
            /\ UNCHANGED transmissao
       ELSE \E ws \in maquina_subscriptions[m] :
            /\ transmissao' = TransmissaoInicial(m, ws)
            /\ lastOp' = Op("broadcast_envio", m, tipo, ws, <<>>)
    /\ UNCHANGED <<active_connections, maquina_subscriptions, sockets,
                   handlers, foraRegistro>>

\* The set object the loop iterates: the one that was under the key when
\* the loop began.  disconnect deletes a key only when its set is empty, so
\* an object that is no longer under its key is empty.
ObjetoIterado(t) ==
    IF t.orfao THEN {} ELSE maquina_subscriptions[t.maquina_id]

\* maquina_events.py:63-66 -- the try around one send
AposEnvio(t, ok) ==
    [t EXCEPT !.entregues = IF ok THEN @ \cup {t.enviando} ELSE @,
              !.disconnected = IF ok THEN @ ELSE @ \cup {t.enviando}]

\* maquina_events.py:62-70 -- the pending send_json ends, and the loop goes
\* on to the next send or to the end of the method.  The set iterator
\* raises RuntimeError when the size of the set is not the one it had when
\* the loop began; elements added meanwhile are visited or not.
broadcast_passo ==
    LET t == AposEnvio(transmissao, sockets[transmissao.enviando])
        m == transmissao.maquina_id
        objeto == ObjetoIterado(transmissao)
        restantes == objeto \ transmissao.visitados
    IN
    /\ transmissao.ativa
    /\ IF Cardinality(objeto) # transmissao.tamanho
       THEN /\ transmissao' = SemTransmissao
            /\ lastOp' = OpErro("broadcast", m, NULL,
                                Resultado(t.entregues, t.disconnected), <<>>)
            /\ UNCHANGED maquina_subscriptions
       ELSE \/ \E prox \in restantes :
                /\ transmissao' = [t EXCEPT !.visitados = @ \cup {prox},
                                            !.enviando = prox]
                /\ lastOp' = Op("broadcast_envio", m, NULL, prox, <<>>)
                /\ UNCHANGED maquina_subscriptions
            \/ /\ restantes \cap transmissao.inicial = {}
               /\ transmissao' = SemTransmissao
               /\ maquina_subscriptions' =
                     [maquina_subscriptions EXCEPT ![m] = @ \ t.disconnected]
               /\ lastOp' = Op("broadcast", m, NULL,
                               Resultado(t.entregues, t.disconnected), <<>>)
    /\ UNCHANGED <<active_connections, sockets, handlers, foraRegistro>>

\* The websocket handler disconnects under the tenant it connected with
\* (maquina_api.py:200 and :214).
NextRegistro ==
    \/ \E ws \in SocketIds, c \in Tenants : connect(ws, c)
    \/ \E ws \in SocketIds, c \in Tenants :
          ws \in Range(ListaDe(c)) /\ disconnect(ws, c)
    \/ \E ws \in SocketIds, m \in MaquinasAssinadas : subscribe(ws, m)
    \/ \E ws \in SocketIds : queda(ws)
    \/ \E m \in MaquinasAssinadas, tipo \in TiposEvento :
          broadcast_inicio(m, tipo)
    \/ broadcast_passo

----------------------------------------------------------------------------
(* POST /maquinas/heartbeat: the service call, then the broadcast *)

\* Mutant: the event is broadcast whether or not the device was found
TransmiteSempre(encontrada) == TRUE

\* maquina_api.py:41-46 -- 404 is raised before broadcast_heartbeat
TransmiteHeartbeat(encontrada) == encontrada

TemAssinantes(m) ==
    m \in DOMAIN maquina_subscriptions /\ maquina_subscriptions[m] # {}

receber_heartbeat(d, hb) ==
    LET encontrada == d \in DOMAIN maquinas
        alertas == IF encontrada THEN AlertasHeartbeat(d, hb) ELSE <<>>
    IN
    /\ IF encontrada
       THEN /\ VoltouOnline(maquinas[d].status, hb.status)
                 => maquinas[d].tempo_atividade + CREDITO_ATIVIDADE
                       <= MaxCreditos * CREDITO_ATIVIDADE
            /\ hb.metricas # SemMetricas => Len(metricas) < MaxMetricas
            /\ maquinas' = [maquinas EXCEPT
                               ![d] = MaquinaAposHeartbeat(@, hb, now)]
            /\ metricas' = IF hb.metricas = SemMetricas THEN metricas
                           ELSE Append(metricas,
                                       [maquina_id |-> d,
                                        cpu_uso |-> hb.metricas.cpu_uso,
                                        memoria_uso |-> hb.metricas.memoria_uso])
       ELSE UNCHANGED <<maquinas, metricas>>
    /\ IF TransmiteHeartbeat(encontrada) /\ TemAssinantes(d)
       THEN /\ ~transmissao.ativa
            /\ \E ws \in maquina_subscriptions[d] :
                  transmissao' = TransmissaoInicial(d, ws)
       ELSE UNCHANGED transmissao
    /\ lastOp' = Op("receber_heartbeat", d, hb,
                    IF encontrada THEN d ELSE NULL, alertas)
    /\ UNCHANGED <<now, smtp_ok, varreduraVars, licencaVars, assinaturaVars,
                   active_connections, maquina_subscriptions, sockets,
                   handlers, agendaVars>>

\* One device is registered; heartbeats also come for an identifier that
\* matches no device
MaquinasRegistraveis == {1}

HeartbeatsApi ==
    HeartbeatsComMetricas \cup {Heartbeat("offline", SemMetricas, NULL)}

NextHeartbeat ==
    \/ TickMinutos
    \/ \E d \in MaquinasRegistraveis, c \in ClienteIds : registrar_maquina(d, c)
    \/ \E d \in MaquinasAssinadas, hb \in HeartbeatsApi :
          receber_heartbeat(d, hb)
    \/ \E ws \in SocketIds, m \in MaquinasAssinadas : subscribe(ws, m)
    \/ broadcast_passo

----------------------------------------------------------------------------
(* The websocket handler and the endpoints that broadcast to it *)

Conectado(ws) == \E c \in DOMAIN active_connections :
                    ws \in Range(active_connections[c])

Passa(ws, estado) == [handlers EXCEPT ![ws] = estado]

\* The cliente_id of the path of the handler of ws, which connected ws
\* under it
TenantDe(ws) == CHOOSE c \in DOMAIN active_connections :
                    ws \in Range(active_connections[c])

\* maquina_api.py:198-200 -- the handler of a new socket connects it under
\* the tenant of the path
websocket_connect(ws, c) ==
    /\ handlers[ws] = "nenhum"
    /\ connect_em(ws, c, Passa(ws, "ativo"))

\* maquina_api.py:203-211 -- a "subscribe" message is received and its
\* confirmation is sent
websocket_subscribe(ws, m) ==
    /\ handlers[ws] = "ativo"
    /\ sockets[ws]
    /\ subscribe_em(ws, m, handlers)

\* maquina_api.py:207-214 -- the transport goes after a "subscribe" message
\* was received: subscribe adds the socket and its send_json raises.  When
\* the exception is WebSocketDisconnect the except clause calls disconnect,
\* which takes out what subscribe has just added; any other exception
\* leaves the handler past the except clause.  The class of the exception
\* is decided by the websocket library.
websocket_subscribe_falha(ws, m, desliga) ==
    /\ handlers[ws] = "ativo"
    /\ ~sockets[ws]
    /\ IF desliga
       THEN disconnect_em(ws, TenantDe(ws), Passa(ws, "terminado"))
       ELSE subscribe_em(ws, m, Passa(ws, "terminado"))

\* maquina_api.py:204, :213-214 -- receive_text raises WebSocketDisconnect
websocket_desligado(ws) ==
    /\ handlers[ws] = "ativo"
    /\ ~sockets[ws]
    /\ disconnect_em(ws, TenantDe(ws), Passa(ws, "terminado"))

\* maquina_api.py:205-207 -- json.loads raises on a text that is not JSON,
\* and message.get on a JSON value that is not an object: neither is a
\* WebSocketDisconnect, so the exception leaves the handler
websocket_malformada(ws) ==
    /\ handlers[ws] = "ativo"
    /\ sockets[ws]
    /\ handlers' = Passa(ws, "terminado")
    /\ lastOp' = OpErro("websocket_maquinas", ws, "malformada", FALSE, <<>>)
    /\ UNCHANGED <<active_connections, maquina_subscriptions, sockets,
                   transmissao, foraRegistro>>

NextHandler ==
    \/ \E ws \in SocketIds, c \in Tenants : websocket_connect(ws, c)
    \/ \E ws \in SocketIds, m \in MaquinasAssinadas : websocket_subscribe(ws, m)
    \/ \E ws \in SocketIds : websocket_desligado(ws)
    \/ \E ws \in SocketIds, m \in MaquinasAssinadas, desliga \in BOOLEAN :
          websocket_subscribe_falha(ws, m, desliga)
    \/ \E ws \in SocketIds : websocket_malformada(ws)
    \/ \E ws \in SocketIds : queda(ws)
    \/ \E m \in MaquinasAssinadas, tipo \in TiposEvento :
          broadcast_inicio(m, tipo)
    \/ broadcast_passo

\* maquina_events.py:73-86, :96-108 -- up to the first send_json
InicioTransmissao(d, transmite) ==
    IF transmite /\ TemAssinantes(d)
    THEN /\ ~transmissao.ativa
         /\ \E ws \in maquina_subscriptions[d] :
               transmissao' = TransmissaoInicial(d, ws)
    ELSE UNCHANGED transmissao

\* maquina_api.py:84-117 -- the service call, 404 when it returns False,
\* then the broadcast
EndpointEstado(nome, d, status) ==
    LET encontrada == d \in DOMAIN maquinas
    IN
    /\ maquinas' = IF encontrada THEN [maquinas EXCEPT ![d].status = status]
                   ELSE maquinas
    /\ InicioTransmissao(d, encontrada)
    /\ lastOp' = Op(nome, d, NULL, encontrada, <<>>)
    /\ UNCHANGED <<now, smtp_ok, metricas, varreduraVars, licencaVars,
                   assinaturaVars, active_connections, maquina_subscriptions,
                   sockets, handlers, agendaVars>>

bloquear_maquina_api(d) == EndpointEstado("bloquear_maquina_api", d, "bloqueada")
desbloquear_maquina_api(d) == EndpointEstado("desbloquear_maquina_api", d, "online")

HeartbeatsEscopo == {Heartbeat("online", SemMetricas, NULL)}

NextEscopo ==
    \/ \E d \in MaquinasAssinadas, c \in Tenants : registrar_maquina(d, c)
    \/ \E ws \in SocketIds, c \in Tenants : websocket_connect(ws, c)
    \/ \E ws \in SocketIds, m \in MaquinasAssinadas : websocket_subscribe(ws, m)
    \/ \E d \in MaquinasAssinadas, hb \in HeartbeatsEscopo :
          receber_heartbeat(d, hb)
    \/ \E d \in MaquinasAssinadas : bloquear_maquina_api(d)
    \/ \E d \in MaquinasAssinadas : desbloquear_maquina_api(d)
    \/ broadcast_passo

----------------------------------------------------------------------------
(* The monitor: the four sweep jobs and their two drivers *)

Jobs == {"maquinas", "licencas", "renovacoes", "metricas"}

\* monitoramento.py:125-128 -- the order of the jobs in a round of the loop
OrdemJobs == <<"maquinas", "licencas", "renovacoes", "metricas">>

\* monitoramento.py:131 -- the position of the loop at its sleep
PosSleep == Len(OrdemJobs) + 1

\* pos: the statement the loop will run next; feitas: the jobs run in this
\* round; falhas: the jobs that have raised inside their body so far
MonitorInicial == [pos |-> 1, ronda |-> 0, feitas |-> {}, falhas |-> {}]

\* The instances of each job the scheduler has submitted and that have not
\* finished
ExecucoesIniciais == [j \in Jobs |-> 0]

Init ==
    /\ now = 0
    /\ maquinas = <<>>
    /\ metricas = <<>>
    /\ licencas = <<>>
    /\ bloqueios = <<>>
    /\ smtp_ok = TRUE
    /\ varredura = SemVarredura
    /\ sessoes = [s \in Sessoes |-> [fase |-> "livre"]]
    /\ assinaturas = <<>>
    /\ clientes = <<>>
    /\ active_connections = <<>>
    /\ maquina_subscriptions = <<>>
    /\ sockets = [ws \in SocketIds |-> TRUE]
    /\ handlers = [ws \in SocketIds |-> "nenhum"]
    /\ transmissao = SemTransmissao
    /\ monitor = MonitorInicial
    /\ execucoes = ExecucoesIniciais
    /\ lastOp = Op("init", NULL, NULL, NULL, <<>>)

NextMaquina ==
    \/ TickMinutos
    \/ \E d \in MaquinaIds, c \in ClienteIds : registrar_maquina(d, c)
    \/ \E d \in MaquinaIds, hb \in HeartbeatsMaquina : processar_heartbeat(d, hb)
    \/ verificar_maquinas_offline(MINUTOS_OFFLINE)
    \/ \E d \in MaquinaIds : bloquear_maquina(d)
    \/ \E d \in MaquinaIds : desbloquear_maquina(d)

SpecMaquina == Init /\ [][NextMaquina]_vars

SpecRegistro == Init /\ [][NextRegistro]_vars

SpecHeartbeat == Init /\ [][NextHeartbeat]_vars

SpecEscopo == Init /\ [][NextEscopo]_vars

\* Heartbeats with and without metrics for one device; a reading may be
\* at the limit, above it, zero or absent
HeartbeatsLeituras ==
    HeartbeatsApi \cup HeartbeatsMaquina
      \cup {Heartbeat("online", Metrica(cpu, LIMITE_METRICA), NULL) :
               cpu \in {0, NULL}}

NextMetricas ==
    \/ TickMinutos
    \/ \E d \in MaquinasRegistraveis, c \in ClienteIds : registrar_maquina(d, c)
    \/ \E d \in MaquinasRegistraveis, hb \in HeartbeatsLeituras :
          processar_heartbeat(d, hb)

SpecMetricas == Init /\ [][NextMetricas]_vars

\* The heartbeats, the subscriptions and their broadcasts, with the sweep
\* of the stale devices running among them
NextVarreduraEventos ==
    \/ NextHeartbeat
    \/ verificar_maquinas_offline(MINUTOS_OFFLINE)

SpecVarreduraEventos == Init /\ [][NextVarreduraEventos]_vars

SpecHandler == Init /\ [][NextHandler]_vars

NextConcorrente ==
    \/ TickMinutos
    \/ \E d \in MaquinaIds, c \in ClienteIds : registrar_maquina(d, c)
    \/ \E d \in MaquinaIds, hb \in HeartbeatsMaquina : processar_heartbeat(d, hb)
    \/ varredura_selecionar(MINUTOS_OFFLINE)
    \/ varredura_gravar

SpecConcorrente == Init /\ [][NextConcorrente]_vars

----------------------------------------------------------------------------
(* Licenses: LicencaService *)

Dias(n) == n * MINUTOS_POR_DIA

\* licenca_service.py:54-58
ExpiracaoInicial(tipo, t) ==
    IF tipo = "demonstracao" THEN t + Dias(DIAS_DEMONSTRACAO)
    ELSE IF tipo = "temporaria" THEN t + Dias(DIAS_TEMPORARIA)
    ELSE NULL

NovaLicenca(c, maq, tipo, limite, t) ==
    [cliente_id |-> c, maquina_id |-> maq, tipo |-> tipo,
     status |-> "pendente", data_ativacao |-> NULL,
     data_expiracao |-> ExpiracaoInicial(tipo, t), data_renovacao |-> NULL,
     limite_usos |-> limite, usos_atuais |-> 0]

\* licenca_service.py:31-40
LicencasAtivasCliente(c) ==
    Cardinality({l \in DOMAIN licencas :
                    licencas[l].cliente_id = c /\ licencas[l].status = "ativa"})

LimiteMaquinasAtingido(c, maq, outras) ==
    maq # NULL /\ LicencasAtivasCliente(c) + outras >= LIMITE_MAQUINAS

criar_licenca(l, c, maq, tipo, limite, outras) ==
    /\ l \notin DOMAIN licencas
    /\ IF LimiteMaquinasAtingido(c, maq, outras)
       THEN /\ lastOp' = Op("criar_licenca", l, tipo, FALSE, <<>>)
            /\ UNCHANGED licencas
       ELSE /\ licencas' = [x \in DOMAIN licencas \cup {l} |->
                              IF x = l THEN NovaLicenca(c, maq, tipo, limite, now)
                              ELSE licencas[x]]
            /\ lastOp' = Op("criar_licenca", l, tipo, TRUE, <<>>)
    /\ UNCHANGED <<now, smtp_ok, bloqueios, foraLicenca>>

\* Mutant: the early return of an already active license is missing
JaAtivaNunca(L) == FALSE

\* licenca_service.py:75
JaAtiva(L) == L.status = "ativa"

\* Mutant: a license counts as expired at the very instant of its expiry
ExpirouInclusive(L, t) == L.data_expiracao # NULL /\ L.data_expiracao <= t

\* licenca_service.py:79 and :110
Expirou(L, t) == L.data_expiracao # NULL /\ L.data_expiracao < t

\* Mutant: the quota comparison is off by one
LimiteUsosSemIgual(L) == L.limite_usos > 0 /\ L.usos_atuais > L.limite_usos

\* Mutant: the quota is never enforced
LimiteUsosNunca(L) == FALSE

\* licenca_service.py:86
LimiteUsosAtingido(L) == L.limite_usos > 0 /\ L.usos_atuais >= L.limite_usos

\* licenca_service.py:90-95
LicencaAtivada(L, maq, t) ==
    [L EXCEPT !.status = "ativa", !.data_ativacao = t,
              !.usos_atuais = @ + 1,
              !.maquina_id = IF maq # NULL THEN maq ELSE @]

\* Mutant: the use is counted before the expiry is detected
LicencaExpiradaContandoUso(L) ==
    [L EXCEPT !.status = "expirada", !.usos_atuais = @ + 1]

\* licenca_service.py:80 and :111
LicencaExpirada(L) == [L EXCEPT !.status = "expirada"]

\* envio_ok: whether the SMTP transport works during the call
ativar_licenca_envio(l, maq, envio_ok) ==
    /\ UNCHANGED <<now, smtp_ok, bloqueios, foraLicenca>>
    /\ IF l \notin DOMAIN licencas
       THEN /\ lastOp' = Op("ativar_licenca", l, maq, FALSE, <<>>)
            /\ UNCHANGED licencas
       ELSE LET L == licencas[l] IN
            IF JaAtiva(L)
            THEN /\ lastOp' = Op("ativar_licenca", l, maq, TRUE, <<>>)
                 /\ UNCHANGED licencas
            ELSE IF Expirou(L, now)
            THEN \* db.commit() (line 81) comes before the alert (line 82)
                 /\ licencas' = [licencas EXCEPT ![l] = LicencaExpirada(L)]
                 /\ lastOp' = IF EnvioLevanta(envio_ok)
                              THEN OpErro("ativar_licenca", l, maq, FALSE,
                                          <<Alerta("licenca_expirada", l)>>)
                              ELSE Op("ativar_licenca", l, maq, FALSE,
                                      <<Alerta("licenca_expirada", l)>>)
            ELSE IF LimiteUsosAtingido(L)
            THEN /\ lastOp' = Op("ativar_licenca", l, maq, FALSE, <<>>)
                 /\ UNCHANGED licencas
            ELSE /\ L.usos_atuais < MaxUsos
                 /\ licencas' = [licencas EXCEPT ![l] = LicencaAtivada(L, maq, now)]
                 /\ lastOp' = Op("ativar_licenca", l, maq, TRUE, <<>>)

ativar_licenca(l, maq) == ativar_licenca_envio(l, maq, smtp_ok)

\* The same method in the sessions of two requests served at the same
\* time: each session reads the row with the query of line 70 and writes,
\* at its commit, the attributes it has assigned; nothing in the method
\* locks the row or makes the UPDATE conditional on what was read.

\* Mutant: the count is written as an increment of the stored value
UsosGravadosRelativo(atual, lida) == atual.usos_atuais + 1

\* licenca_service.py:92 -- `licenca.usos_atuais += 1` is computed on the
\* object the session has loaded, and the UPDATE carries the result
UsosGravados(atual, lida) == lida.usos_atuais + 1

\* licenca_service.py:70-72
ativar_ler(s, l, maq) ==
    /\ sessoes[s].fase = "livre"
    /\ l \in DOMAIN licencas
    /\ sessoes' = [sessoes EXCEPT ![s] = [fase |-> "lida", l |-> l, maq |-> maq,
                                          lida |-> licencas[l]]]
    /\ lastOp' = Op("ativar_ler", l, maq, s, <<>>)
    /\ UNCHANGED <<now, smtp_ok, licencaVars, maquinaVars, varredura,
                   assinaturaVars, registroVars, agendaVars>>

\* licenca_service.py:75-100, on the row as the session has read it
ativar_gravar(s) ==
    LET l == sessoes[s].l
        maq == sessoes[s].maq
        L == sessoes[s].lida
        atual == licencas[l]
        ret == JaAtiva(L) \/ (~Expirou(L, now) /\ ~LimiteUsosAtingido(L))
    IN
    /\ sessoes[s].fase = "lida"
    /\ licencas' =
          IF JaAtiva(L) THEN licencas
          ELSE IF Expirou(L, now)
          THEN [licencas EXCEPT ![l].status = LicencaExpirada(L).status]
          ELSE IF LimiteUsosAtingido(L) THEN licencas
          ELSE [licencas EXCEPT
                   ![l].status = LicencaAtivada(L, maq, now).status,
                   ![l].data_ativacao = LicencaAtivada(L, maq, now).data_ativacao,
                   ![l].usos_atuais = UsosGravados(atual, L),
                   ![l].maquina_id = IF maq # NULL THEN maq ELSE @]
    /\ sessoes' = [sessoes EXCEPT ![s] = [fase |-> "gravada", l |-> l,
                                          maq |-> maq, lida |-> L, ret |-> ret]]
    /\ lastOp' = Op("ativar_gravar", l, maq, ret,
                    IF ~JaAtiva(L) /\ Expirou(L, now)
                    THEN <<Alerta("licenca_expirada", l)>> ELSE <<>>)
    /\ UNCHANGED <<now, smtp_ok, bloqueios, maquinaVars, varredura,
                   assinaturaVars, registroVars, agendaVars>>

verificar_licenca_envio(l, envio_ok) ==
    /\ UNCHANGED <<now, smtp_ok, bloqueios, foraLicenca>>
    /\ IF l \notin DOMAIN licencas
       THEN /\ lastOp' = Op("verificar_licenca", l, NULL, NULL, <<>>)
            /\ UNCHANGED licencas
       ELSE LET L == licencas[l] IN
            IF Expirou(L, now)
            THEN \* db.commit() (line 112) comes before the alert (line 113)
                 /\ licencas' = [licencas EXCEPT ![l] = LicencaExpirada(L)]
                 /\ lastOp' = IF EnvioLevanta(envio_ok)
                              THEN \* nothing is returned: the row as it was
                                   \* read stands for the missing answer
                                   OpErro("verificar_licenca", l, NULL, L,
                                          <<Alerta("licenca_expirada", l)>>)
                              ELSE Op("verificar_licenca", l, NULL,
                                      LicencaExpirada(L),
                                      <<Alerta("licenca_expirada", l)>>)
            ELSE /\ lastOp' = Op("verificar_licenca", l, NULL, L, <<>>)
                 /\ UNCHANGED licencas

verificar_licenca(l) == verificar_licenca_envio(l, smtp_ok)

\* Mutant: the new term always starts at the time of the renewal
NovaDataDesdeAgora(L, meses, t) == t + Dias(DIAS_POR_MES * meses)

\* licenca_service.py:125-126
NovaDataExpiracao(L, meses, t) ==
    (IF L.data_expiracao # NULL THEN L.data_expiracao ELSE t)
        + Dias(DIAS_POR_MES * meses)

\* licenca_service.py:128-130
LicencaRenovada(L, meses, t) ==
    [L EXCEPT !.data_expiracao = NovaDataExpiracao(L, meses, t),
              !.data_renovacao = t,
              !.status = "ativa"]

\* Renewals are followed while the new expiry stays within this horizon
HorizonteExpiracao == (MaxPassosDias + 2) * PassoDias

renovar_licenca(l, meses) ==
    /\ UNCHANGED <<now, smtp_ok, bloqueios, foraLicenca>>
    /\ IF l \notin DOMAIN licencas
       THEN /\ lastOp' = Op("renovar_licenca", l, meses, FALSE, <<>>)
            /\ UNCHANGED licencas
       ELSE /\ NovaDataExpiracao(licencas[l], meses, now) <= HorizonteExpiracao
            /\ licencas' = [licencas EXCEPT ![l] = LicencaRenovada(@, meses, now)]
            /\ lastOp' = Op("renovar_licenca", l, meses, TRUE, <<>>)

\* licenca_service.py:148-154
BloqueioLicenca(L, motivo) ==
    [cliente_id |-> L.cliente_id, maquina_id |-> L.maquina_id,
     motivo |-> motivo, tipo |-> "licenca", severidade |-> "alta",
     data_desbloqueio |-> NULL]

bloquear_licenca(l, motivo) ==
    /\ UNCHANGED <<now, smtp_ok, foraLicenca>>
    /\ IF l \notin DOMAIN licencas
       THEN /\ lastOp' = Op("bloquear_licenca", l, motivo, FALSE, <<>>)
            /\ UNCHANGED <<licencas, bloqueios>>
       ELSE /\ Len(bloqueios) < MaxBloqueios
            /\ licencas' = [licencas EXCEPT ![l].status = "suspensa"]
            /\ bloqueios' = Append(bloqueios, BloqueioLicenca(licencas[l], motivo))
            /\ lastOp' = Op("bloquear_licenca", l, motivo, TRUE, <<>>)

MaquinasLicenca == {NULL, 1}
Motivos == {"pagamento"}

NextLicenca ==
    \/ TickDias
    \/ \E l \in LicencaIds, c \in ClienteIds, maq \in MaquinasLicenca,
          tipo \in TipoLicenca, limite \in 0..MaxLimiteUsos,
          outras \in OutrasAtivas :
            criar_licenca(l, c, maq, tipo, limite, outras)
    \/ \E l \in LicencaIds, maq \in MaquinasLicenca : ativar_licenca(l, maq)
    \/ \E l \in LicencaIds : verificar_licenca(l)
    \/ \E l \in LicencaIds, meses \in 1..MaxMeses : renovar_licenca(l, meses)
    \/ \E l \in LicencaIds, motivo \in Motivos : bloquear_licenca(l, motivo)

SpecLicenca == Init /\ [][NextLicenca]_vars

NextAtivacao ==
    \/ TickDias
    \/ \E l \in LicencaIds, c \in ClienteIds, maq \in MaquinasLicenca,
          tipo \in TipoLicenca, limite \in 0..MaxLimiteUsos :
            criar_licenca(l, c, maq, tipo, limite, 0)
    \/ \E s \in Sessoes, l \in LicencaIds, maq \in MaquinasLicenca :
          ativar_ler(s, l, maq)
    \/ \E s \in Sessoes : ativar_gravar(s)

SpecAtivacao == Init /\ [][NextAtivacao]_vars

\* The cancellation of a license is made by the CRUD layer, which these
\* sources do not hold (no statement of them writes StatusLicenca.CANCELADA);
\* it is written here from the state diagram Active -> Cancelled.
cancelar_licenca(l) ==
    /\ l \in DOMAIN licencas
    /\ licencas[l].status = "ativa"
    /\ licencas' = [licencas EXCEPT ![l].status = "cancelada"]
    /\ lastOp' = Op("cancelar_licenca", l, NULL, TRUE, <<>>)
    /\ UNCHANGED <<now, smtp_ok, bloqueios, foraLicenca>>

NextCancelamento ==
    \/ NextLicenca
    \/ \E l \in LicencaIds : cancelar_licenca(l)

SpecCancelamento == Init /\ [][NextCancelamento]_vars

----------------------------------------------------------------------------
(* Subscriptions: AssinaturaService *)

AssinaturaIds == {1}
Ciclos == {"mensal", "trimestral", "semestral", "anual", "bianual"}
Planos == {"pro"}

PassoAntecedencia == DIAS_ANTECEDENCIA * MINUTOS_POR_DIA

TickAntecedencia ==
    /\ now + PassoAntecedencia <= MaxPassosAntecedencia * PassoAntecedencia
    /\ now' = now + PassoAntecedencia
    /\ lastOp' = Op("tick", NULL, NULL, NULL, <<>>)
    /\ UNCHANGED <<smtp_ok, maquinaVars, varreduraVars, foraMaquina>>

\* cliente_service.py:28-37
NovoCliente ==
    [tipo |-> "free", status |-> "pendente", data_assinatura |-> NULL,
     data_expiracao |-> NULL]

criar_cliente(c) ==
    /\ c \notin DOMAIN clientes
    /\ clientes' = [x \in DOMAIN clientes \cup {c} |->
                      IF x = c THEN NovoCliente ELSE clientes[x]]
    /\ lastOp' = Op("criar_cliente", c, NULL, c, <<>>)
    /\ UNCHANGED <<assinaturas, foraAssinatura>>

\* licenca_service.py:192-201
DiasCicloCriacao(ciclo) ==
    IF ciclo = "mensal" THEN DIAS_MENSAL
    ELSE IF ciclo = "trimestral" THEN DIAS_TRIMESTRAL
    ELSE IF ciclo = "semestral" THEN DIAS_SEMESTRAL
    ELSE IF ciclo = "anual" THEN DIAS_ANUAL
    ELSE IF ciclo = "bianual" THEN DIAS_BIANUAL
    ELSE 0

\* licenca_service.py:204-217; renovacoes counts the renewals made since
NovaAssinatura(c, l, plano, ciclo, inicio, auto) ==
    [cliente_id |-> c, licenca_id |-> l, plano |-> plano, ciclo |-> ciclo,
     data_inicio |-> inicio,
     data_fim |-> inicio + Dias(DiasCicloCriacao(ciclo)),
     renovacao_automatica |-> auto, status |-> "ativa", renovacoes |-> 0]

\* licenca_service.py:224-227
ClienteComAssinatura(C, A) ==
    [C EXCEPT !.tipo = A.plano, !.data_assinatura = A.data_inicio,
              !.data_expiracao = A.data_fim, !.status = "ativo"]

criar_assinatura(a, c, l, plano, ciclo, inicio, auto) ==
    /\ a \notin DOMAIN assinaturas
    /\ IF c \notin DOMAIN clientes \/ l \notin DOMAIN licencas
       THEN \* ValueError
            /\ lastOp' = OpErro("criar_assinatura", a, ciclo, NULL, <<>>)
            /\ UNCHANGED <<assinaturas, clientes>>
       ELSE LET A == NovaAssinatura(c, l, plano, ciclo, inicio, auto) IN
            /\ assinaturas' = [x \in DOMAIN assinaturas \cup {a} |->
                                 IF x = a THEN A ELSE assinaturas[x]]
            /\ clientes' = [clientes EXCEPT ![c] = ClienteComAssinatura(@, A)]
            /\ lastOp' = Op("criar_assinatura", a, ciclo, a, <<>>)
    /\ UNCHANGED foraAssinatura

\* Mutant: every renewal adds one month
DiasCicloRenovacaoMensal(ciclo) == DIAS_MENSAL

\* licenca_service.py:261-270
DiasCicloRenovacao(ciclo) ==
    IF ciclo = "mensal" THEN DIAS_MENSAL
    ELSE IF ciclo = "trimestral" THEN DIAS_TRIMESTRAL
    ELSE IF ciclo = "semestral" THEN DIAS_SEMESTRAL
    ELSE IF ciclo = "anual" THEN DIAS_ANUAL
    ELSE IF ciclo = "bianual" THEN DIAS_BIANUAL
    ELSE 0

\* licenca_service.py:260-272
AssinaturaRenovada(A) ==
    [A EXCEPT !.data_fim = @ + Dias(DiasCicloRenovacao(A.ciclo)),
              !.renovacoes = @ + 1]

\* Mutant: a renewal leaves the row of the client alone
ClientesSemCascata(as, cs, a) == cs

\* licenca_service.py:255-279 applied to the tables as and cs
AssinaturasAposRenovar(as, a) ==
    [as EXCEPT ![a] = AssinaturaRenovada(@)]
ClientesAposRenovar(as, cs, a) ==
    IF as[a].cliente_id \in DOMAIN cs
    THEN [cs EXCEPT ![as[a].cliente_id].data_expiracao =
                        AssinaturaRenovada(as[a]).data_fim]
    ELSE cs

renovar_assinatura(a) ==
    /\ IF a \notin DOMAIN assinaturas
       THEN /\ lastOp' = Op("renovar_assinatura", a, NULL, FALSE, <<>>)
            /\ UNCHANGED <<assinaturas, clientes>>
       ELSE /\ assinaturas[a].renovacoes < MaxRenovacoes
            /\ assinaturas' = AssinaturasAposRenovar(assinaturas, a)
            /\ clientes' = ClientesAposRenovar(assinaturas, clientes, a)
            /\ lastOp' = Op("renovar_assinatura", a, NULL, TRUE, <<>>)
    /\ UNCHANGED foraAssinatura

\* licenca_service.py:236-245
PrecisaRenovar(A, t) ==
    /\ A.status = "ativa"
    /\ A.data_fim <= t + Dias(DIAS_ANTECEDENCIA)
    /\ A.data_fim > t
    /\ A.renovacao_automatica

AssinaturasARenovar(as, t) == {a \in DOMAIN as : PrecisaRenovar(as[a], t)}

\* licenca_service.py:247-248
AlertasPagamento(sel) ==
    [i \in 1..Cardinality(sel) |->
        Alerta("pagamento_pendente", SetToSeq(sel)[i])]

\* GET /assinaturas/renovacoes-pendentes
verificar_renovacoes_envio(envio_ok) ==
    LET sel == AssinaturasARenovar(assinaturas, now) IN
    /\ lastOp' = IF sel # {} /\ EnvioLevanta(envio_ok)
                 THEN OpErro("verificar_renovacoes", NULL, NULL, {},
                             <<AlertasPagamento(sel)[1]>>)
                 ELSE Op("verificar_renovacoes", NULL, NULL, sel,
                         AlertasPagamento(sel))
    /\ UNCHANGED <<assinaturas, clientes, foraAssinatura>>

verificar_renovacoes == verificar_renovacoes_envio(smtp_ok)

\* monitoramento.py:72-80 -- the renewals of the selected subscriptions, in
\* the order of the list
RECURSIVE RenovarTodas(_, _, _)
RenovarTodas(as, cs, lista) ==
    IF lista = <<>> THEN <<as, cs>>
    ELSE RenovarTodas(AssinaturasAposRenovar(as, Head(lista)),
                      ClientesAposRenovar(as, cs, Head(lista)),
                      Tail(lista))

\* monitoramento.py:62-85 -- an exception inside the try is caught and
\* logged by the job, which then renews nothing
monitorar_renovacoes_assinaturas_envio(envio_ok) ==
    LET sel == AssinaturasARenovar(assinaturas, now)
        depois == RenovarTodas(assinaturas, clientes, SetToSeq(sel))
    IN
    /\ IF next_get_db_levanta
       THEN \* line 67 raises; lines 84-85 log it
            /\ lastOp' = OpVarredura("monitorar_renovacoes_assinaturas", NULL,
                                     NULL, {}, <<>>)
            /\ UNCHANGED <<assinaturas, clientes>>
       ELSE IF sel # {} /\ EnvioLevanta(envio_ok)
       THEN /\ lastOp' = OpVarredura("monitorar_renovacoes_assinaturas", NULL,
                                     NULL, {}, <<AlertasPagamento(sel)[1]>>)
            /\ UNCHANGED <<assinaturas, clientes>>
       ELSE /\ \A a \in sel : assinaturas[a].renovacoes < MaxRenovacoes
            /\ assinaturas' = depois[1]
            /\ clientes' = depois[2]
            /\ lastOp' = OpVarredura("monitorar_renovacoes_assinaturas", NULL,
                                     NULL, sel, AlertasPagamento(sel))
    /\ UNCHANGED foraAssinatura

monitorar_renovacoes_assinaturas ==
    monitorar_renovacoes_assinaturas_envio(smtp_ok)

\* The license a subscription refers to
criar_licenca_assinatura(l, c) == criar_licenca(l, c, NULL, "assinatura", 0, 0)

NextAssinatura ==
    \/ TickAntecedencia
    \/ \E c \in ClienteIds : criar_cliente(c)
    \/ \E l \in LicencaIds, c \in ClienteIds : criar_licenca_assinatura(l, c)
    \/ \E a \in AssinaturaIds, c \in ClienteIds, l \in LicencaIds,
          plano \in Planos, ciclo \in Ciclos, auto \in BOOLEAN :
            criar_assinatura(a, c, l, plano, ciclo, now, auto)
    \/ \E a \in AssinaturaIds : renovar_assinatura(a)
    \/ verificar_renovacoes
    \/ monitorar_renovacoes_assinaturas

SpecAssinatura == Init /\ [][NextAssinatura]_vars

----------------------------------------------------------------------------
(* The monitor jobs: MonitoramentoService, executar_monitoramento_continuo *)
(* and LicencaScheduler.  The body of a job holds no await, so one         *)
(* execution is one step of the event loop.                                *)

\* Mutant: an exception raised in the body of a job leaves the job
JobPropagaSeFalha(falhou) == falhou

\* monitoramento.py:31-32, 58-59, 84-85, 117-118 -- the whole body of each
\* job is inside try / except Exception, which logs and returns
JobPropaga(falhou) == FALSE

\* licenca_service.py:164-172
LicencasExpirando(ls, t, dias) ==
    {l \in DOMAIN ls : /\ ls[l].status = "ativa"
                       /\ ls[l].data_expiracao # NULL
                       /\ ls[l].data_expiracao <= t + Dias(dias)
                       /\ ls[l].data_expiracao > t}

\* monitoramento.py:46-54 -- timedelta.days of the time left
AlertasExpirando(ls, t) ==
    LET sel == {l \in LicencasExpirando(ls, t, DIAS_EXPIRANDO) :
                  (ls[l].data_expiracao - t) \div MINUTOS_POR_DIA
                      <= DIAS_ALERTA_EXPIRACAO}
    IN [i \in 1..Cardinality(sel) |->
            Alerta("licenca_expirada", SetToSeq(sel)[i])]

\* monitoramento.py:102-115 -- the averages of an empty table are None, and
\* formatting None with :.2f raises
MetricasFalham == metricas = <<>>

\* What a job that ran to its end has requested
AlertasJob(j) ==
    IF j = "maquinas"
    THEN AlertasOffline(MaquinasSelecionadas(maquinas, now, MINUTOS_OFFLINE))
    ELSE IF j = "licencas" THEN AlertasExpirando(licencas, now)
    ELSE IF j = "renovacoes"
    THEN AlertasPagamento(AssinaturasARenovar(assinaturas, now))
    ELSE <<>>

\* The rows after the body of job j; a body that raised has committed
\* nothing
CorpoJob(j, falhou) ==
    LET sel == AssinaturasARenovar(assinaturas, now)
        depois == RenovarTodas(assinaturas, clientes, SetToSeq(sel))
    IN
    /\ next_get_db_levanta => falhou
    /\ j = "metricas" /\ MetricasFalham => falhou
    /\ maquinas' = IF j = "maquinas" /\ ~falhou
                   THEN MaquinasAposVarredura(maquinas,
                            MaquinasSelecionadas(maquinas, now, MINUTOS_OFFLINE))
                   ELSE maquinas
    /\ assinaturas' = IF j = "renovacoes" /\ ~falhou THEN depois[1]
                      ELSE assinaturas
    /\ clientes' = IF j = "renovacoes" /\ ~falhou THEN depois[2] ELSE clientes
    /\ UNCHANGED <<now, smtp_ok, metricas, varreduraVars, licencaVars,
                   registroVars>>

Execucao(driver, falhou) == [driver |-> driver, falhou |-> falhou]

\* monitoramento.py:122-135 -- one job of the round.  An exception that
\* left the job would reach the handler of the loop, which logs, sleeps and
\* starts the next round.
laco_job ==
    /\ monitor.pos < PosSleep
    /\ LET j == OrdemJobs[monitor.pos] IN
       \E falhou \in BOOLEAN :
          /\ CorpoJob(j, falhou)
          /\ IF JobPropaga(falhou)
             THEN /\ monitor' = [monitor EXCEPT !.pos = PosSleep,
                                                !.falhas = @ \cup {j}]
                  /\ lastOp' = OpErro("job", j, Execucao("laco", falhou),
                                      NULL, <<>>)
             ELSE /\ monitor' = [monitor EXCEPT
                                    !.pos = @ + 1,
                                    !.feitas = @ \cup {j},
                                    !.falhas = IF falhou THEN @ \cup {j} ELSE @]
                  /\ lastOp' = Op("job", j, Execucao("laco", falhou), NULL,
                                  IF falhou THEN <<>> ELSE AlertasJob(j))
          /\ UNCHANGED execucoes

\* monitoramento.py:131 and :135 -- the sleep, then the next round
laco_dorme ==
    /\ monitor.pos = PosSleep
    /\ monitor.ronda < MaxRondas
    /\ monitor' = [monitor EXCEPT !.pos = 1, !.ronda = @ + 1, !.feitas = {}]
    /\ lastOp' = Op("laco_dorme", NULL, NULL, NULL, <<>>)
    /\ UNCHANGED <<now, smtp_ok, maquinaVars, varreduraVars, licencaVars,
                   assinaturaVars, registroVars, execucoes>>

\* Mutant: two instances of a job may run at once
MAX_INSTANCIAS_DUAS == 1 + 1

\* licenca_scheduler.py:18-43 -- add_job is called without max_instances,
\* and the scheduler is built without job defaults (line 13): one instance
\* of a job at a time
MAX_INSTANCIAS == 1

\* The trigger of job j fires.  The scheduler keeps no queue of ticks: a
\* tick is submitted to the event loop or dropped.
agenda_disparo(j) ==
    /\ IF execucoes[j] >= MAX_INSTANCIAS
       THEN /\ lastOp' = Op("agenda_disparo", j, NULL, "ignorado", <<>>)
            /\ UNCHANGED execucoes
       ELSE /\ execucoes' = [execucoes EXCEPT ![j] = @ + 1]
            /\ lastOp' = Op("agenda_disparo", j, NULL, "submetido", <<>>)
    /\ UNCHANGED <<now, smtp_ok, maquinaVars, varreduraVars, licencaVars,
                   assinaturaVars, registroVars, monitor>>

\* A submitted instance of job j runs on the event loop
agenda_executa(j) ==
    /\ execucoes[j] > 0
    /\ \E falhou \in BOOLEAN :
          /\ CorpoJob(j, falhou)
          /\ lastOp' = IF JobPropaga(falhou)
                       THEN OpErro("job", j, Execucao("agenda", falhou),
                                   NULL, <<>>)
                       ELSE Op("job", j, Execucao("agenda", falhou), NULL,
                               IF falhou THEN <<>> ELSE AlertasJob(j))
    /\ execucoes' = [execucoes EXCEPT ![j] = @ - 1]
    /\ UNCHANGED monitor

NextAgenda ==
    \/ laco_job
    \/ laco_dorme
    \/ \E j \in Jobs : agenda_disparo(j)
    \/ \E j \in Jobs : agenda_executa(j)

SpecAgenda == Init /\ [][NextAgenda]_vars

----------------------------------------------------------------------------
(* The licenses about to expire: GET /licencas/expirando and the job *)

\* Mutant: the selected licenses are marked expired
LicencasMarcadasExpiradas(ls, sel) ==
    [l \in DOMAIN ls |-> IF l \in sel THEN LicencaExpirada(ls[l]) ELSE ls[l]]

\* licenca_service.py:164-174 and monitoramento.py:45-54 -- the rows are
\* read and listed; no attribute is assigned and nothing is committed
LicencasAposExpirando(ls, sel) == ls

get_licencas_expirando(dias) ==
    LET sel == LicencasExpirando(licencas, now, dias) IN
    /\ licencas' = LicencasAposExpirando(licencas, sel)
    /\ lastOp' = Op("get_licencas_expirando", NULL, dias, sel, <<>>)
    /\ UNCHANGED <<now, smtp_ok, bloqueios, foraLicenca>>

\* monitoramento.py:35-59
monitorar_licencas_expirando ==
    LET sel == LicencasExpirando(licencas, now, DIAS_EXPIRANDO) IN
    /\ IF next_get_db_levanta
       THEN \* line 40 raises; lines 58-59 log it
            /\ lastOp' = OpVarredura("monitorar_licencas_expirando", NULL,
                                     NULL, {}, <<>>)
            /\ UNCHANGED licencas
       ELSE /\ licencas' = LicencasAposExpirando(licencas, sel)
            /\ lastOp' = OpVarredura("monitorar_licencas_expirando", NULL,
                                     NULL, sel, AlertasExpirando(licencas, now))
    /\ UNCHANGED <<now, smtp_ok, bloqueios, foraLicenca>>

NextExpirando ==
    \/ TickAntecedencia
    \/ \E l \in LicencaIds, c \in ClienteIds, maq \in MaquinasLicenca,
          tipo \in TipoLicenca, limite \in 0..MaxLimiteUsos :
            criar_licenca(l, c, maq, tipo, limite, 0)
    \/ \E l \in LicencaIds, maq \in MaquinasLicenca : ativar_licenca(l, maq)
    \/ \E l \in LicencaIds : verificar_licenca(l)
    \/ get_licencas_expirando(DIAS_EXPIRANDO)
    \/ monitorar_licencas_expirando

SpecExpirando == Init /\ [][NextExpirando]_vars

----------------------------------------------------------------------------
(* The operations that request alerts, with a transport that comes and     *)
(* goes.  The three services share no row, and a behaviour follows one of  *)
(* them on its own clock.                                                  *)

\* The device the alerts are about
MaquinasAlerta == {1}

SoMaquinas ==
    /\ licencas = <<>> /\ clientes = <<>>
    /\ now <= MaxPassosMinutos * PassoMinutos
SoLicencas ==
    /\ maquinas = <<>> /\ clientes = <<>>
    /\ now % PassoDias = 0
SoAssinaturas ==
    /\ maquinas = <<>>
    /\ \A l \in DOMAIN licencas : licencas[l].status = "pendente"
    /\ now % PassoAntecedencia = 0

NextAlertas ==
    \/ smtp_muda
    \/ /\ SoMaquinas
       /\ \/ TickMinutos
          \/ \E d \in MaquinasAlerta, c \in ClienteIds : registrar_maquina(d, c)
          \/ \E d \in MaquinasAlerta, hb \in HeartbeatsComMetricas :
                processar_heartbeat(d, hb)
          \/ verificar_maquinas_offline(MINUTOS_OFFLINE)
    \/ /\ SoLicencas
       /\ \/ TickDias
          \/ \E l \in LicencaIds, c \in ClienteIds, maq \in MaquinasLicenca,
                tipo \in TipoLicenca, limite \in 0..MaxLimiteUsos :
                  criar_licenca(l, c, maq, tipo, limite, 0)
          \/ \E l \in LicencaIds, maq \in MaquinasLicenca :
                ativar_licenca(l, maq)
          \/ \E l \in LicencaIds : verificar_licenca(l)
    \/ /\ SoAssinaturas
       /\ NextAssinatura

SpecAlertas == Init /\ [][NextAlertas]_vars

----------------------------------------------------------------------------
(* Claims about devices *)

Registrada(d) == d \in DOMAIN maquinas
Manuais == {"bloqueada", "manutencao"}

\* C1: no processar_heartbeat call moves a device into Blocked or
\* Maintenance or changes the status of a device that is Blocked or in
\* Maintenance; Blocked is entered only by bloquear_maquina and left only
\* by desbloquear_maquina.
C1_BloqueioSoPorComando ==
    [][\A d \in MaquinaIds : Registrada(d) =>
         LET antes == maquinas[d].status
             depois == maquinas'[d].status
         IN /\ lastOp'.op = "processar_heartbeat" =>
                 /\ depois \in Manuais => depois = antes
                 /\ antes \in Manuais => depois = antes
            /\ (antes # "bloqueada" /\ depois = "bloqueada")
                 => lastOp'.op = "bloquear_maquina"
            /\ (antes = "bloqueada" /\ depois # "bloqueada")
                 => lastOp'.op = "desbloquear_maquina"]_vars

\* The devices the sweep is specified to select
ObsoletasEspecificadas(minutos) ==
    {d \in DOMAIN maquinas :
        /\ maquinas[d].status \notin {"offline", "bloqueada", "manutencao"}
        /\ maquinas[d].ultima_conexao < now - minutos}

\* C2: verificar_maquinas_offline transitions to Offline exactly the
\* devices whose status is not Offline, Blocked or Maintenance and whose
\* last_seen is older than the threshold, returns exactly that set, and
\* leaves the status of every other device unchanged.
C2_VarreduraExata ==
    [][lastOp'.op = "verificar_maquinas_offline" =>
         LET alvo == ObsoletasEspecificadas(MINUTOS_OFFLINE)
         IN /\ lastOp'.ret = alvo
            /\ \A d \in DOMAIN maquinas :
                 maquinas'[d].status =
                    IF d \in alvo THEN "offline" ELSE maquinas[d].status]_vars

\* C12: of two calls of verificar_maquinas_offline made in a row with the
\* same threshold, with no heartbeat and no other call in between, the second
\* returns the empty set, changes no device status and requests no alert.
C12_VarreduraIdempotente ==
    [][( /\ lastOp.op = "verificar_maquinas_offline"
         /\ lastOp'.op = "verificar_maquinas_offline"
         /\ lastOp'.args = lastOp.args )
       => /\ lastOp'.ret = {}
          /\ lastOp'.alertas = <<>>
          /\ \A d \in DOMAIN maquinas :
               maquinas'[d].status = maquinas[d].status]_vars

\* C12 witness: a sweep has returned nothing right after a sweep that had
\* set a device offline.
C12_Witness ==
    /\ lastOp.op = "verificar_maquinas_offline"
    /\ lastOp.ret = {}
    /\ lastOp.anterior.repetida
    /\ lastOp.anterior.ret # {}
    /\ \E d \in DOMAIN maquinas :
         maquinas[d].status = "offline" /\ maquinas[d].tempo_atividade > 0

AlertaOffline(d) == [tipo |-> "maquina_offline", alvo |-> d]
Vezes(seq, x) == Cardinality({i \in DOMAIN seq : seq[i] = x})

\* C13: a sweep run later than T0 + threshold sets Offline a device whose
\* last heartbeat, at T0, reported Online; and every sweep requests exactly
\* one device-offline alert for each device it sets Offline, none for any
\* other device, and no alert of another kind.
C13_UmAlertaPorTransicao ==
    [][lastOp'.op = "verificar_maquinas_offline" =>
         LET transicionadas ==
                 {d \in DOMAIN maquinas :
                     /\ maquinas[d].status # "offline"
                     /\ maquinas'[d].status = "offline"}
         IN /\ \A d \in DOMAIN maquinas :
                 ( /\ maquinas[d].status = "online"
                   /\ now > maquinas[d].ultima_conexao + lastOp'.args )
                 => d \in transicionadas
            /\ \A d \in DOMAIN maquinas :
                 Vezes(lastOp'.alertas, AlertaOffline(d)) =
                    IF d \in transicionadas THEN 1 ELSE 0
            /\ Len(lastOp'.alertas) = Cardinality(transicionadas)]_vars

\* C13 witness: of two devices that reported Online, the sweep has set the
\* stale one offline with its one alert and has left the fresh one alone.
C13_Witness ==
    /\ lastOp.op = "verificar_maquinas_offline"
    /\ \E d, e \in DOMAIN maquinas :
         /\ lastOp.alertas = <<AlertaOffline(d)>>
         /\ maquinas[d].status = "offline"
         /\ maquinas[d].tempo_atividade > 0
         /\ maquinas[d].ultima_conexao + lastOp.args < now
         /\ maquinas[e].status = "online"
         /\ maquinas[e].ultima_conexao = now

\* C16: a sweep never sets Offline a device whose last_seen is not older
\* than the threshold of that sweep, even when a heartbeat of the device is
\* processed between the selection of the sweep and its write.
C16_SemAtualizacaoPerdida ==
    [][lastOp'.op = "varredura_gravar" =>
         \A d \in DOMAIN maquinas :
            ( /\ maquinas[d].status # "offline"
              /\ maquinas'[d].status = "offline" )
            => maquinas'[d].ultima_conexao < varredura.limite]_vars

----------------------------------------------------------------------------
(* Claims about licenses *)

Existe(l) == l \in DOMAIN licencas
Vencida(L, t) == L.data_expiracao # NULL /\ t > L.data_expiracao
Chamada(nome, l) == lastOp'.op = nome /\ lastOp'.alvo = l /\ Existe(l)
AlertaExpiracao(l) == [tipo |-> "licenca_expirada", alvo |-> l]

\* C3: ativar_licenca on an Active license returns success and changes no
\* field of it; an activation of a Pending license that succeeds leaves it
\* Active with usage_count incremented by one, and one that fails leaves
\* usage_count as it was, so of two consecutive calls only the first
\* increments usage_count.
C3_AtivarIdempotente ==
    [][\A l \in LicencaIds : Chamada("ativar_licenca", l) =>
         /\ licencas[l].status = "ativa" =>
              /\ lastOp'.ret = TRUE
              /\ licencas'[l] = licencas[l]
         /\ licencas[l].status = "pendente" =>
              IF lastOp'.ret
              THEN /\ licencas'[l].status = "ativa"
                   /\ licencas'[l].usos_atuais = licencas[l].usos_atuais + 1
              ELSE licencas'[l].usos_atuais = licencas[l].usos_atuais]_vars

\* C3 witness: ativar_licenca has just returned success on a license that
\* an earlier call had activated.
C3_Witness ==
    /\ lastOp.op = "ativar_licenca" /\ lastOp.ret = TRUE
    /\ \E l \in DOMAIN licencas :
         /\ lastOp.alvo = l
         /\ licencas[l].status = "ativa"
         /\ licencas[l].data_ativacao # NULL
         /\ licencas[l].data_ativacao < now
         /\ licencas[l].usos_atuais = 1

\* C4: ativar_licenca on a license that is not Active and not expired, with
\* usage_limit > 0 and usage_count >= usage_limit, fails and leaves the
\* license unchanged.
C4_CotaExcedida ==
    [][\A l \in LicencaIds :
         ( /\ Chamada("ativar_licenca", l)
           /\ licencas[l].status # "ativa"
           /\ ~Vencida(licencas[l], now)
           /\ licencas[l].limite_usos > 0
           /\ licencas[l].usos_atuais >= licencas[l].limite_usos )
         => /\ lastOp'.ret = FALSE
            /\ lastOp'.alertas = <<>>
            /\ licencas'[l] = licencas[l]]_vars

\* C4 witness: a failed activation of a license that is not Active, not
\* expired and has used up its quota.
C4_Witness ==
    /\ lastOp.op = "ativar_licenca" /\ lastOp.ret = FALSE
    /\ \E l \in DOMAIN licencas :
         /\ lastOp.alvo = l
         /\ licencas[l].status = "suspensa"
         /\ ~Vencida(licencas[l], now)
         /\ licencas[l].limite_usos > 0
         /\ licencas[l].usos_atuais >= licencas[l].limite_usos

\* C5: every license with usage_limit > 0 has usage_count <= usage_limit.
C5_UsosDentroDoLimite ==
    \A l \in DOMAIN licencas :
        licencas[l].limite_usos > 0 =>
            licencas[l].usos_atuais <= licencas[l].limite_usos

\* C5 witness: a license with a quota that has been activated up to it and
\* then suspended, so that a further activation is attempted against it.
C5_Witness ==
    \E l \in DOMAIN licencas :
        /\ licencas[l].limite_usos > 0
        /\ licencas[l].usos_atuais = licencas[l].limite_usos
        /\ licencas[l].status = "suspensa"
        /\ lastOp.op = "bloquear_licenca"

Max(a, b) == IF a >= b THEN a ELSE b

\* C6: renovar_licenca(meses) at time now on a license with expires_at = T
\* sets expires_at to max(T, now) + extension, status to Active and
\* renewed_at to now.
C6_RenovarDesdeMaximo ==
    [][\A l \in LicencaIds :
         ( /\ Chamada("renovar_licenca", l)
           /\ licencas[l].data_expiracao # NULL )
         => /\ licencas'[l].data_expiracao =
                 Max(licencas[l].data_expiracao, now)
                    + Dias(DIAS_POR_MES * lastOp'.args)
            /\ licencas'[l].status = "ativa"
            /\ licencas'[l].data_renovacao = now]_vars

\* C7: the expires_at of a license never decreases (and, once set, is never
\* cleared), whatever operation is performed.
C7_ExpiracaoMonotona ==
    [][\A l \in DOMAIN licencas :
         licencas[l].data_expiracao # NULL =>
            /\ licencas'[l].data_expiracao # NULL
            /\ licencas'[l].data_expiracao >= licencas[l].data_expiracao]_vars

\* C7 witness: a license that had a term has been renewed twice, the second
\* time while its term still ran beyond one more period.
C7_Witness ==
    /\ lastOp.op = "renovar_licenca" /\ lastOp.ret = TRUE
    /\ \E l \in DOMAIN licencas :
         /\ lastOp.alvo = l
         /\ licencas[l].tipo = "temporaria"
         /\ licencas[l].data_renovacao = now
         /\ licencas[l].data_expiracao > now + Dias(DIAS_POR_MES * (lastOp.args + 1))

\* C8: a Suspended or Expired license becomes Active only through
\* renovar_licenca; ativar_licenca on a Suspended license that has not
\* expired neither sets it Active nor increments usage_count.
C8_ReativarSoPorRenovacao ==
    [][\A l \in DOMAIN licencas :
         /\ ( /\ licencas[l].status \in {"suspensa", "expirada"}
              /\ licencas'[l].status = "ativa" )
            => lastOp'.op = "renovar_licenca"
         /\ ( /\ Chamada("ativar_licenca", l)
              /\ licencas[l].status = "suspensa"
              /\ ~Vencida(licencas[l], now) )
            => /\ licencas'[l].status # "ativa"
               /\ licencas'[l].usos_atuais = licencas[l].usos_atuais]_vars

\* C9: verificar_licenca on a license with expires_at set and now >
\* expires_at sets it Expired, requests exactly one expiry alert and returns
\* it in state Expired; otherwise it changes nothing, requests no alert and
\* returns the license as it is.
C9_VerificarExpira ==
    [][\A l \in LicencaIds : Chamada("verificar_licenca", l) =>
         IF Vencida(licencas[l], now)
         THEN /\ licencas'[l] = [licencas[l] EXCEPT !.status = "expirada"]
              /\ lastOp'.alertas = <<AlertaExpiracao(l)>>
              /\ lastOp'.ret = licencas'[l]
         ELSE /\ licencas'[l] = licencas[l]
              /\ lastOp'.alertas = <<>>
              /\ lastOp'.ret = licencas[l]]_vars

\* C9 witness: a Temporary license verified after its 30 days returns
\* Expired with one alert.
C9_Witness ==
    /\ lastOp.op = "verificar_licenca"
    /\ Len(lastOp.alertas) = 1
    /\ \E l \in DOMAIN licencas :
         /\ lastOp.alvo = l
         /\ licencas[l].tipo = "temporaria"
         /\ licencas[l].data_renovacao = NULL
         /\ licencas[l].status = "expirada"
         /\ lastOp.ret.status = "expirada"
         /\ now > licencas[l].data_expiracao

\* C10: ativar_licenca on a license that is not Active and whose expires_at
\* is set and earlier than now sets it Expired, requests an expiry alert and
\* fails, leaving usage_count, activated_at and the bound device unchanged.
C10_AtivarVencida ==
    [][\A l \in LicencaIds :
         ( /\ Chamada("ativar_licenca", l)
           /\ licencas[l].status # "ativa"
           /\ Vencida(licencas[l], now) )
         => /\ licencas'[l] = [licencas[l] EXCEPT !.status = "expirada"]
            /\ lastOp'.alertas = <<AlertaExpiracao(l)>>
            /\ lastOp'.ret = FALSE]_vars

\* C10 witness: a failed activation, with a device supplied, of a license
\* that had been activated before and has expired since.
C10_Witness ==
    /\ lastOp.op = "ativar_licenca" /\ lastOp.ret = FALSE
    /\ lastOp.args # NULL
    /\ lastOp.alertas # <<>>
    /\ \E l \in DOMAIN licencas :
         /\ lastOp.alvo = l
         /\ licencas[l].status = "expirada"
         /\ licencas[l].usos_atuais = 1
         /\ licencas[l].maquina_id = NULL

\* C11: ativar_licenca on a Cancelled license fails and leaves the license
\* unchanged: its status stays Cancelled and usage_count is not incremented.
C11_AtivarCancelada ==
    [][\A l \in LicencaIds :
         ( /\ Chamada("ativar_licenca", l)
           /\ licencas[l].status = "cancelada" )
         => /\ lastOp'.ret = FALSE
            /\ licencas'[l] = licencas[l]]_vars

----------------------------------------------------------------------------
(* Claims about the connection registry *)

Inscritos(m) == IF m \in DOMAIN maquina_subscriptions
                THEN maquina_subscriptions[m] ELSE {}

\* C14: a broadcast delivers the event to every subscriber of the device
\* whose transport works, whatever the number and the order of the sends
\* that fail; a subscriber whose send failed is not sent to again and is not
\* in the subscription set of the device when the broadcast ends.
C14_BroadcastIsolado ==
    [][( /\ transmissao.ativa
         /\ lastOp'.op = "broadcast" )
       => LET m == transmissao.maquina_id
          IN /\ \A ws \in transmissao.inicial \cap Inscritos(m) :
                  sockets[ws] => ws \in lastOp'.ret.entregues
             /\ lastOp'.ret.entregues \cap lastOp'.ret.falhas = {}
             /\ \A ws \in lastOp'.ret.falhas :
                  m \in DOMAIN maquina_subscriptions'
                     => ws \notin maquina_subscriptions'[m]]_vars

\* C15: when disconnect(ws, c) has completed, ws is in the connection list
\* of no tenant and in the subscription set of no device.
C15_DisconnectCompleto ==
    [][( /\ lastOp'.op = "disconnect"
         /\ ~lastOp'.erro )
       => LET ws == lastOp'.alvo
          IN /\ \A c \in DOMAIN active_connections' :
                  ws \notin Range(active_connections'[c])
             /\ \A m \in DOMAIN maquina_subscriptions' :
                  ws \notin maquina_subscriptions'[m]]_vars

----------------------------------------------------------------------------
(* Claims about subscriptions *)

CycleLength(ciclo) ==
    CASE ciclo = "mensal" -> 30
      [] ciclo = "trimestral" -> 90
      [] ciclo = "semestral" -> 180
      [] ciclo = "anual" -> 365
      [] ciclo = "bianual" -> 730

Renovada(a) ==
    \/ lastOp'.op = "renovar_assinatura" /\ lastOp'.alvo = a /\ lastOp'.ret
    \/ lastOp'.op = "monitorar_renovacoes_assinaturas" /\ a \in lastOp'.ret

\* C20: a subscription is created Active with end = start + the length of
\* its billing cycle; every renewal advances end by exactly one length of
\* the cycle and nothing else changes it, so that after n renewals
\* end = start + (n + 1) lengths.
C20_FimPorCiclo ==
    [][\A a \in AssinaturaIds : a \in DOMAIN assinaturas' =>
         LET N == assinaturas'[a]
             ciclo == MINUTOS_POR_DIA * CycleLength(N.ciclo)
         IN /\ N.data_fim = N.data_inicio + (N.renovacoes + 1) * ciclo
            /\ IF a \notin DOMAIN assinaturas
               THEN /\ N.status = "ativa"
                    /\ N.data_fim = N.data_inicio + ciclo
                    /\ N.renovacoes = 0
               ELSE LET A == assinaturas[a]
                    IN /\ N.data_inicio = A.data_inicio
                       /\ N.ciclo = A.ciclo
                       /\ N.data_fim = IF Renovada(a) THEN A.data_fim + ciclo
                                       ELSE A.data_fim
                       /\ N.renovacoes = IF Renovada(a) THEN A.renovacoes + 1
                                         ELSE A.renovacoes]_vars

\* C20 witness: a quarterly subscription has been renewed for the second
\* time.
C20_Witness ==
    /\ lastOp.op = "renovar_assinatura" /\ lastOp.ret = TRUE
    /\ \E a \in DOMAIN assinaturas :
         /\ lastOp.alvo = a
         /\ assinaturas[a].ciclo = "trimestral"
         /\ assinaturas[a].renovacoes = 2
         /\ assinaturas[a].data_fim =
               assinaturas[a].data_inicio + 3 * MINUTOS_POR_DIA * 90

----------------------------------------------------------------------------
(* Claims about alerts *)

OperacoesComAlerta ==
    {"processar_heartbeat", "verificar_maquinas_offline", "ativar_licenca",
     "verificar_licenca", "verificar_renovacoes",
     "monitorar_renovacoes_assinaturas"}

\* C17: an operation that requests an alert leaves the same rows and the
\* same answer whether the dispatch of the alert succeeds or fails: each
\* step of such an operation is a step of it with a working transport if
\* and only if it is a step of it with a failing transport, and no step
\* that requested an alert ends in an exception.
C17_AlertaNaoInterfere ==
    [][/\ lastOp'.op = "processar_heartbeat" =>
            \A d \in MaquinasAlerta, hb \in HeartbeatsComMetricas :
                 processar_heartbeat_envio(d, hb, FALSE)
                   <=> processar_heartbeat_envio(d, hb, TRUE)
       /\ lastOp'.op = "verificar_maquinas_offline" =>
            (verificar_maquinas_offline_envio(MINUTOS_OFFLINE, FALSE)
               <=> verificar_maquinas_offline_envio(MINUTOS_OFFLINE, TRUE))
       /\ lastOp'.op = "ativar_licenca" =>
            \A l \in LicencaIds, maq \in MaquinasLicenca :
               ativar_licenca_envio(l, maq, FALSE)
                 <=> ativar_licenca_envio(l, maq, TRUE)
       /\ lastOp'.op = "verificar_licenca" =>
            \A l \in LicencaIds :
               verificar_licenca_envio(l, FALSE)
                 <=> verificar_licenca_envio(l, TRUE)
       /\ lastOp'.op = "verificar_renovacoes" =>
            (verificar_renovacoes_envio(FALSE)
               <=> verificar_renovacoes_envio(TRUE))
       /\ lastOp'.op = "monitorar_renovacoes_assinaturas" =>
            (monitorar_renovacoes_assinaturas_envio(FALSE)
               <=> monitorar_renovacoes_assinaturas_envio(TRUE))
       /\ (lastOp'.op \in OperacoesComAlerta /\ lastOp'.alertas # <<>>)
            => ~lastOp'.erro]_vars

\* A sweep that marked a device offline while the transport was failing
C17_Witness ==
    /\ ~smtp_ok
    /\ lastOp.op = "verificar_maquinas_offline"
    /\ lastOp.alertas # <<>>
    /\ \E d \in lastOp.ret : maquinas[d].status = "offline"

----------------------------------------------------------------------------
(* Claims about the monitor *)

ExecutouJob == lastOp'.op = "job"

C19_FalhaIsolada ==
    [][/\ (ExecutouJob /\ lastOp'.args.falhou) =>
            /\ ~lastOp'.erro
            /\ lastOp'.args.driver = "laco" =>
                  /\ monitor'.pos = monitor.pos + 1
                  /\ lastOp'.alvo \in monitor'.feitas
            /\ lastOp'.args.driver = "agenda" =>
                  /\ execucoes'[lastOp'.alvo] = execucoes[lastOp'.alvo] - 1
                  /\ monitor' = monitor
       /\ monitor'.pos = PosSleep => monitor'.feitas = Jobs]_vars

\* A later round, after the first job has failed, that ends with the four
\* jobs run and the last of them failing
C19_Witness ==
    /\ monitor.ronda >= 1
    /\ monitor.pos = PosSleep
    /\ monitor.feitas = Jobs
    /\ "maquinas" \in monitor.falhas
    /\ lastOp.op = "job"
    /\ lastOp.alvo = "metricas"
    /\ lastOp.args.falhou

----------------------------------------------------------------------------
(* Claims about the cached expiry of the client *)

Dono(a) == assinaturas'[a].cliente_id

ExpiracaoIgual(cs1, cs2) ==
    \A c \in DOMAIN cs1 \cap DOMAIN cs2 :
        cs1[c].data_expiracao = cs2[c].data_expiracao

\* C21: after a subscription is created or renewed, the expiry date kept
\* on the row of its client is the end date the subscription now has; a
\* step of any other operation leaves that date as it was on every client.
C21_ExpiracaoEmCascata ==
    [][/\ (lastOp'.op = "criar_assinatura" /\ ~lastOp'.erro) =>
            clientes'[Dono(lastOp'.alvo)].data_expiracao
                = assinaturas'[lastOp'.alvo].data_fim
       /\ (lastOp'.op = "renovar_assinatura" /\ lastOp'.ret = TRUE) =>
            clientes'[Dono(lastOp'.alvo)].data_expiracao
                = assinaturas'[lastOp'.alvo].data_fim
       /\ lastOp'.op = "monitorar_renovacoes_assinaturas" =>
            \A a \in lastOp'.ret :
                clientes'[Dono(a)].data_expiracao = assinaturas'[a].data_fim
       /\ lastOp'.op \notin {"criar_assinatura", "renovar_assinatura",
                              "monitorar_renovacoes_assinaturas"}
            => ExpiracaoIgual(clientes, clientes')]_vars

\* A renewal has moved the end date and the date on the client with it
C21_Witness ==
    /\ lastOp.op = "renovar_assinatura"
    /\ lastOp.ret = TRUE
    /\ assinaturas[lastOp.alvo].renovacoes >= 1
    /\ clientes[assinaturas[lastOp.alvo].cliente_id].data_expiracao
          = assinaturas[lastOp.alvo].data_fim

----------------------------------------------------------------------------
(* Claims about the renewal job *)

NaJanela(A, t) ==
    /\ A.status = "ativa"
    /\ A.renovacao_automatica
    /\ A.data_fim > t
    /\ A.data_fim <= t + MINUTOS_POR_DIA * DIAS_ANTECEDENCIA

AlertaPagamento(a) == [tipo |-> "pagamento_pendente", alvo |-> a]

\* C22: a run of the renewal job renews exactly the subscriptions that are
\* Active, renew automatically and end within the three days ahead: each
\* of them gets one alert and its end moves by one length of its cycle;
\* every other subscription gets no alert and keeps its end.
C22_RenovaExatamente ==
    [][lastOp'.op = "monitorar_renovacoes_assinaturas" =>
         \A a \in DOMAIN assinaturas :
            IF NaJanela(assinaturas[a], now)
            THEN /\ Vezes(lastOp'.alertas, AlertaPagamento(a)) = 1
                 /\ assinaturas'[a].data_fim
                      = assinaturas[a].data_fim
                          + MINUTOS_POR_DIA * CycleLength(assinaturas[a].ciclo)
            ELSE /\ Vezes(lastOp'.alertas, AlertaPagamento(a)) = 0
                 /\ assinaturas'[a] = assinaturas[a]]_<<now, assinaturas,
                                                         lastOp.op>>

----------------------------------------------------------------------------
(* Claims about the licenses about to expire *)

VarreduraExpirando ==
    lastOp'.op \in {"get_licencas_expirando", "monitorar_licencas_expirando"}

\* C23: the sweep of the licenses about to expire changes no license:
\* after it every license has the status, the expiry date and the count
\* of uses it had before, the Active licenses inside the window included.
C23_VarreduraSoLe ==
    [][VarreduraExpirando =>
         /\ DOMAIN licencas' = DOMAIN licencas
         /\ \A l \in DOMAIN licencas :
               /\ licencas'[l].status = licencas[l].status
               /\ licencas'[l].data_expiracao = licencas[l].data_expiracao
               /\ licencas'[l].usos_atuais = licencas[l].usos_atuais]_vars

\* The sweep has just listed an Active license that expires within the
\* window, and the license is still Active
C23_Witness ==
    /\ lastOp.op = "get_licencas_expirando"
    /\ lastOp.ret # {}
    /\ \A l \in lastOp.ret :
          /\ licencas[l].status = "ativa"
          /\ licencas[l].data_expiracao > now
          /\ licencas[l].data_expiracao <= now + MINUTOS_POR_DIA * lastOp.args

----------------------------------------------------------------------------
(* Claims about the heartbeat of an unknown device *)

\* C24: a heartbeat whose identifier matches no registered device is
\* answered with not found and changes nothing: no device, no metric
\* sample, no alert, and no event is sent to any subscriber.
C24_HeartbeatDesconhecido ==
    [][(lastOp'.op = "receber_heartbeat"
          /\ lastOp'.alvo \notin DOMAIN maquinas) =>
         /\ lastOp'.ret = NULL
         /\ lastOp'.alertas = <<>>
         /\ maquinas' = maquinas
         /\ metricas' = metricas
         /\ transmissao' = transmissao
         /\ maquina_subscriptions' = maquina_subscriptions]_vars

\* A heartbeat with high metrics has come for an unregistered identifier
\* that has a subscriber, while another device is registered
C24_Witness ==
    /\ lastOp.op = "receber_heartbeat"
    /\ lastOp.alvo \notin DOMAIN maquinas
    /\ maquinas # <<>>
    /\ lastOp.args.metricas # SemMetricas
    /\ MetricaSuspeita(lastOp.args.metricas.cpu_uso)
    /\ TemAssinantes(lastOp.alvo)
    /\ ~transmissao.ativa

----------------------------------------------------------------------------
(* Claims about the records of blocks *)

BloqueioAberto(bs, d) ==
    \E i \in DOMAIN bs :
        bs[i].maquina_id = d /\ bs[i].data_desbloqueio = NULL

\* C25: blocking a device sets it Blocked and opens a record of the block
\* for it; unblocking it closes that record and sets it Online; so a
\* device is Blocked exactly when it has an open record.
C25_BloqueioComRegistro ==
    [][/\ (lastOp'.op = "bloquear_maquina" /\ lastOp'.ret = TRUE) =>
            /\ maquinas'[lastOp'.alvo].status = "bloqueada"
            /\ Len(bloqueios') = Len(bloqueios) + 1
            /\ BloqueioAberto(bloqueios', lastOp'.alvo)
       /\ (lastOp'.op = "desbloquear_maquina" /\ lastOp'.ret = TRUE) =>
            /\ maquinas'[lastOp'.alvo].status = "online"
            /\ ~BloqueioAberto(bloqueios', lastOp'.alvo)
       /\ lastOp'.op \in {"bloquear_maquina", "desbloquear_maquina"} =>
            \A d \in DOMAIN maquinas' :
                maquinas'[d].status = "bloqueada"
                    <=> BloqueioAberto(bloqueios', d)]_<<maquinas, bloqueios,
                                                         lastOp.op>>

\* C26: suspending an existing license sets it Suspended, adds exactly one
\* record of the block carrying the license's client, device and the
\* reason, and requests an alert; suspending an unknown license is refused
\* and adds no record.
C26_SuspensaoRegistaEAlerta ==
    [][lastOp'.op = "bloquear_licenca" =>
         IF lastOp'.alvo \in DOMAIN licencas
         THEN /\ lastOp'.ret = TRUE
              /\ licencas'[lastOp'.alvo].status = "suspensa"
              /\ Len(bloqueios') = Len(bloqueios) + 1
              /\ SubSeq(bloqueios', 1, Len(bloqueios)) = bloqueios
              /\ LET b == bloqueios'[Len(bloqueios')]
                     L == licencas[lastOp'.alvo]
                 IN /\ b.cliente_id = L.cliente_id
                    /\ b.maquina_id = L.maquina_id
                    /\ b.motivo = lastOp'.args
              /\ lastOp'.alertas # <<>>
         ELSE /\ lastOp'.ret = FALSE
              /\ bloqueios' = bloqueios]_<<licencas, bloqueios, lastOp.op>>

----------------------------------------------------------------------------
(* Claims about the websocket handler and the registry *)

\* C27: a socket connected under one tenant is never sent an event of a
\* device that belongs to another tenant.
C27_EventosDoTenant ==
    [][(/\ transmissao.ativa
        /\ lastOp'.op \in {"broadcast", "broadcast_envio"}
        /\ sockets[transmissao.enviando]
        /\ transmissao.maquina_id \in DOMAIN maquinas)
       => \A c \in DOMAIN active_connections :
             transmissao.enviando \in Range(active_connections[c])
                => maquinas[transmissao.maquina_id].cliente_id = c
      ]_<<transmissao, lastOp.op>>

\* C28: a broadcast works on the subscribers the device had when it was
\* called: no subscribe or disconnect that runs during one of its sends
\* makes it fail, and it ends having sent to every one of those subscribers.
C28_BroadcastSobreFoto ==
    [][( /\ transmissao.ativa
         /\ lastOp'.op = "broadcast" )
       => /\ ~lastOp'.erro
          /\ transmissao.inicial \subseteq
                (lastOp'.ret.entregues \cup lastOp'.ret.falhas)
      ]_<<transmissao, lastOp.op>>

NoRegistro(ws) ==
    \/ Conectado(ws)
    \/ \E m \in DOMAIN maquina_subscriptions : ws \in maquina_subscriptions[m]

\* C29: when the handler of a socket ends because its transport has gone,
\* its confirmation could not be sent or its message was malformed, the
\* socket is in the connection list of no tenant and in the subscription
\* set of no device.
C29_HandlerLimpaRegistro ==
    [][\A ws \in SocketIds :
          (handlers[ws] = "ativo" /\ handlers'[ws] = "terminado")
             => ~NoRegistro(ws)']_handlers

\* C30: connecting a socket under a tenant it is already connected under
\* leaves the registry as it was, so that one disconnect afterwards takes
\* the socket out of the list of the tenant.
C30_ConnectIdempotente ==
    [][( /\ lastOp'.op = "connect"
         /\ lastOp'.alvo \in Range(ListaDe(lastOp'.args)) )
       => active_connections' = active_connections
      ]_<<active_connections, lastOp.op>>

----------------------------------------------------------------------------
(* Claims about the effects of a heartbeat *)

\* C31: a heartbeat of a known device sets its last connection to now and
\* its status to the reported one, and adds 300 seconds to its uptime when
\* the device was Offline and reports Online, and nothing to it otherwise.
C31_EfeitosDoHeartbeat ==
    [][( /\ lastOp'.op = "processar_heartbeat"
         /\ lastOp'.ret # NULL )
       => LET d == lastOp'.alvo
              hb == lastOp'.args
          IN /\ maquinas'[d].ultima_conexao = now
             /\ maquinas'[d].status = hb.status
             /\ maquinas'[d].tempo_atividade =
                   maquinas[d].tempo_atividade
                     + (IF maquinas[d].status = "offline" /\ hb.status = "online"
                        THEN 300 ELSE 0)]_vars

\* C31 witness: a heartbeat that reports Online has been stored at a later
\* time for a device that holds the credit of one reconnection.
C31_Witness ==
    /\ lastOp.op = "processar_heartbeat"
    /\ lastOp.ret # NULL
    /\ lastOp.args.status = "online"
    /\ maquinas[lastOp.alvo].tempo_atividade = 300
    /\ maquinas[lastOp.alvo].ultima_conexao = now
    /\ now > 0

Acima(x) == x # NULL /\ x > 90

\* C32: a heartbeat of a known device adds one metric sample when it
\* carries metrics and none when it does not, and requests a suspect-device
\* alert exactly when it carries metrics of which the cpu or the memory
\* reading is above 90; it requests no alert of another kind.
C32_AmostraEAlerta ==
    [][( /\ lastOp'.op = "processar_heartbeat"
         /\ lastOp'.ret # NULL )
       => LET d == lastOp'.alvo
              m == lastOp'.args.metricas
              fornecidas == m # SemMetricas
          IN /\ Len(metricas') = Len(metricas) + (IF fornecidas THEN 1 ELSE 0)
             /\ SubSeq(metricas', 1, Len(metricas)) = metricas
             /\ fornecidas => metricas'[Len(metricas')].maquina_id = d
             /\ (lastOp'.alertas # <<>>)
                  <=> (fornecidas /\ (Acima(m.cpu_uso) \/ Acima(m.memoria_uso)))
             /\ \A i \in DOMAIN lastOp'.alertas :
                  lastOp'.alertas[i] = [tipo |-> "atividade_suspeita",
                                        alvo |-> d]]_vars

\* C32 witness: a heartbeat whose cpu and memory readings are both exactly
\* 90 has added its sample and requested no alert.
C32_Witness ==
    /\ lastOp.op = "processar_heartbeat"
    /\ lastOp.ret # NULL
    /\ lastOp.args.metricas # SemMetricas
    /\ lastOp.args.metricas.cpu_uso = 90
    /\ lastOp.args.metricas.memoria_uso = 90
    /\ lastOp.alertas = <<>>
    /\ Len(metricas) = 1

----------------------------------------------------------------------------
(* Claims about the sweeps of the monitor *)

Alvos(alertas) == {alertas[i].alvo : i \in DOMAIN alertas}

\* C33: the sweep of the licenses about to expire requests an alert for
\* every Active license that expires after now and within seven days, and
\* for no other license.
C33_AlertaNaJanela ==
    [][lastOp'.op = "monitorar_licencas_expirando" =>
         Alvos(lastOp'.alertas) =
            {l \in DOMAIN licencas :
                /\ licencas[l].status = "ativa"
                /\ licencas[l].data_expiracao # NULL
                /\ licencas[l].data_expiracao > now
                /\ licencas[l].data_expiracao <= now + 7 * MINUTOS_POR_DIA}
      ]_<<now, licencas, lastOp.op>>

\* C34: when the sweep of the stale devices sets a device Offline, an
\* event of the change is sent to the subscribers the device has.
C34_VarreduraTransmite ==
    [][lastOp'.op = "verificar_maquinas_offline" =>
         \A d \in lastOp'.ret :
            TemAssinantes(d) =>
               /\ transmissao'.ativa
               /\ transmissao' # transmissao
               /\ transmissao'.maquina_id = d
      ]_<<maquinas, transmissao, lastOp.op>>

----------------------------------------------------------------------------
(* Claims about activations served at the same time *)

\* C35: when the two activations of a license have both read it Pending
\* and have both succeeded, the license is Active and its count of uses has
\* grown by one in all; and a license with a limit of one use never counts
\* two.
C35_AtivacaoUmaVez ==
    \A l \in DOMAIN licencas :
       /\ ( \A s \in Sessoes :
               /\ sessoes[s].fase = "gravada"
               /\ sessoes[s].l = l
               /\ sessoes[s].lida.status = "pendente"
               /\ sessoes[s].ret )
            => /\ licencas[l].status = "ativa"
               /\ \A s \in Sessoes :
                     licencas[l].usos_atuais = sessoes[s].lida.usos_atuais + 1
       /\ licencas[l].limite_usos = 1 => licencas[l].usos_atuais # 2

\* C35 witness: both sessions read the license Pending with no use counted
\* before either wrote, both have activated it, and it counts one use of
\* the one it allows.
C35_Witness ==
    /\ \A s \in Sessoes :
          /\ sessoes[s].fase = "gravada"
          /\ sessoes[s].lida.status = "pendente"
          /\ sessoes[s].lida.usos_atuais = 0
          /\ sessoes[s].ret
    /\ licencas[1].limite_usos = 1
    /\ licencas[1].usos_atuais = 1
    /\ licencas[1].status = "ativa"

----------------------------------------------------------------------------
(* Claims about a license after its renewal and after its expiry *)

\* C36: right after a successful renewal the license is Active and its
\* expiry lies after now, however long ago it had expired.
C36_RenovadaUtilizavel ==
    [][\A l \in LicencaIds :
         ( /\ Chamada("renovar_licenca", l)
           /\ lastOp'.ret = TRUE )
         => /\ licencas'[l].status = "ativa"
            /\ licencas'[l].data_expiracao > now
      ]_<<licencas, lastOp.op>>

\* C37: a verification or an activation of a license that is already
\* Expired requests no expiry alert: the alert belongs to the call that
\* made the license Expired.
C37_AlertaSoNaTransicao ==
    [][\A l \in LicencaIds :
         ( /\ Chamada("verificar_licenca", l) \/ Chamada("ativar_licenca", l)
           /\ licencas[l].status = "expirada" )
         => lastOp'.alertas = <<>>
      ]_<<licencas, lastOp.op>>

----------------------------------------------------------------------------
(* Claims about two runs of the renewal job in a row *)

\* C38: of two runs of the renewal job made in a row at the same time, the
\* first has renewed every subscription that was due, so that none is due
\* any more, and the second renews nothing and requests no alert.
C38_RenovaUmaVezPorJanela ==
    [][( /\ lastOp.op = "monitorar_renovacoes_assinaturas"
         /\ lastOp'.op = "monitorar_renovacoes_assinaturas" )
       => /\ \A a \in DOMAIN assinaturas : ~NaJanela(assinaturas[a], now)
          /\ assinaturas' = assinaturas
          /\ lastOp'.alertas = <<>>
      ]_<<assinaturas, lastOp.op, lastOp.anterior.repetida>>

----------------------------------------------------------------------------
(* Claims about the unblocking of a device that is not Blocked *)

\* C39: unblocking a device that is not Blocked leaves its status as it
\* was.
C39_DesbloquearSoDesfaz ==
    [][\A d \in DOMAIN maquinas :
         ( /\ lastOp'.op = "desbloquear_maquina"
           /\ lastOp'.alvo = d
           /\ maquinas[d].status # "bloqueada" )
         => maquinas'[d].status = maquinas[d].status
      ]_<<maquinas, lastOp.op>>

====
